---- MODULE Spec2Model ----
(***************************************************************************)
(* Model of the iGel-router web dashboard (src/web-dashboard): the command *)
(* runner run_command, the audit logger log_action and the request         *)
(* handlers of api/routes.py and api/wifi.py, each handler a small state   *)
(* machine that blocks on the child process of every external command.     *)
(*                                                                         *)
(* Texts (stdout, stderr, messages) are sequences of tokens; the tokens    *)
(* " " and "\n" are whitespace, every other token is a run of non-blank    *)
(* characters.  A command line is the sequence of its words.              *)
(***************************************************************************)
EXTENDS Integers, Sequences, FiniteSets, TLC

\* ------------------------------------------------------------------ bounds
MaxLen == 3        \* longest raw output text of a directly called command
MaxTimeout == 2    \* largest timeout of a direct run_command call
MaxServed == 2     \* requests served in one behaviour
MaxRoutes == 2     \* longest routes list of a route update

\* ------------------------------------------------------- program constants
DefaultTimeout == 30

Workers == {"w1", "w2"}

\* ------------------------------------------------------------------- texts
Whitespace == {" ", "\n"}

RECURSIVE lstrip(_)
lstrip(s) == IF s # <<>> /\ Head(s) \in Whitespace THEN lstrip(Tail(s)) ELSE s

RECURSIVE rstrip(_)
rstrip(s) ==
    IF s # <<>> /\ s[Len(s)] \in Whitespace THEN rstrip(SubSeq(s, 1, Len(s) - 1)) ELSE s

strip_left_only(s) == lstrip(s)

\* str.strip(): leading and trailing whitespace removed, the inside kept
strip(s) == rstrip(lstrip(s))

RECURSIVE TextsUpTo(_, _)
TextsUpTo(alphabet, n) ==
    IF n = 0 THEN {<<>>}
    ELSE LET shorter == TextsUpTo(alphabet, n - 1)
         IN  shorter \cup {Append(t, c) : t \in shorter, c \in alphabet}

NoTimeout == <<>>

VARIABLES
    pc,              \* worker -> position in the handler it runs
    req,             \* worker -> the request it serves
    child,           \* worker -> the child process it waits for, if any
    loc,             \* worker -> the handler's local variables
    resp,            \* worker -> the response returned, <<>> before that
    hist,            \* worker -> what the request did so far (commands, audit calls)
    exit_node,       \* the VPN daemon's Self.ExitNodeOption
    config_changes,  \* the audit table, in insertion order
    procs,           \* the processes alive on the host that a command started
    served           \* number of requests accepted so far

vars == <<pc, req, child, loc, resp, hist, exit_node, config_changes, procs, served>>

\* ------------------------------------------------------ child processes
\* What the environment decides when the command is launched: whether the
\* launch itself fails, whether the process ever exits on its own, how long it
\* runs, and whether the shell line forks further processes.
Fate(fault, hangs, dur, forks) ==
    [fault |-> fault, hangs |-> hangs, dur |-> dur, forks |-> forks]

\* What the process has produced when it exits.
Output(code, out, err, decodes) ==
    [code |-> code, out |-> out, err |-> err, decodes |-> decodes]

NoChild == [running |-> FALSE, cmd |-> <<>>, timeout |-> NoTimeout,
            fate |-> Fate("none", FALSE, 0, FALSE)]

Started(cmd, timeout, fate) ==
    [running |-> TRUE, cmd |-> cmd, timeout |-> timeout, fate |-> fate]

Proc(n, cmd, role) == [request |-> n, cmd |-> cmd, role |-> role]

\* Popen: the direct child (the shell, or the script) and what it forks
Spawned(n, cmd, fate) ==
    IF fate.fault # "none" THEN {}
    ELSE {Proc(n, cmd, "child")} \cup
         (IF fate.forks THEN {Proc(n, cmd, "descendant")} ELSE {})

TimesOut(fate, timeout) ==
    timeout # NoTimeout /\ (fate.hangs \/ fate.dur > timeout[1])

\* subprocess.run gives control back: at once when the launch fails, when the
\* process exits, or when the timeout fires
Returns(c) ==
    c.running /\ (c.fate.fault # "none" \/ ~c.fate.hangs \/ c.timeout # NoTimeout)

\* subprocess.run(..., capture_output=True, text=True[, timeout][, check=True])
subprocess_run(fate, o, timeout, check) ==
    IF fate.fault # "none"
    THEN [exc |-> fate.fault, returncode |-> 0, stdout |-> <<>>, stderr |-> <<>>]
    ELSE IF TimesOut(fate, timeout)
    THEN [exc |-> "TimeoutExpired", returncode |-> 0, stdout |-> <<>>, stderr |-> <<>>]
    ELSE IF ~o.decodes
    THEN [exc |-> "UnicodeDecodeError", returncode |-> 0, stdout |-> <<>>, stderr |-> <<>>]
    ELSE IF check /\ o.code # 0
    THEN [exc |-> "CalledProcessError", returncode |-> o.code,
          stdout |-> o.out, stderr |-> o.err]
    ELSE [exc |-> "none", returncode |-> o.code, stdout |-> o.out, stderr |-> o.err]

\* On a timeout subprocess.run kills and reaps the process it started, nothing
\* else; on exit every process of the command line is gone.
Reaped(ps, n, cmd, sr) ==
    IF sr.exc = "TimeoutExpired" THEN ps \ {Proc(n, cmd, "child")}
    ELSE ps \ {Proc(n, cmd, "child"), Proc(n, cmd, "descendant")}

\* str(e)
str(exc) == <<exc>>

Return(v) == [raised |-> "none", ret |-> <<v>>]
Raise(exc) == [raised |-> exc, ret |-> <<>>]

\* the classes `except Exception` catches, among those a command launch raises
ExceptionClasses == {"OSError", "UnicodeDecodeError", "CalledProcessError", "TimeoutExpired"}

run_command_no_catch_all(fate, o, timeout) ==
    LET sr == subprocess_run(fate, o, <<timeout>>, FALSE)
    IN  IF sr.exc = "none"
        THEN Return([success |-> sr.returncode = 0, stdout |-> strip(sr.stdout),
                     stderr |-> strip(sr.stderr), returncode |-> sr.returncode])
        ELSE IF sr.exc = "TimeoutExpired"
        THEN Return([success |-> FALSE, stdout |-> <<>>,
                     stderr |-> <<"Command timed out">>, returncode |-> -1])
        ELSE Raise(sr.exc)

run_command_timeout_as_error(fate, o, timeout) ==
    LET sr == subprocess_run(fate, o, <<timeout>>, FALSE)
    IN  IF sr.exc = "none"
        THEN Return([success |-> sr.returncode = 0, stdout |-> strip(sr.stdout),
                     stderr |-> strip(sr.stderr), returncode |-> sr.returncode])
        ELSE IF sr.exc \in ExceptionClasses
        THEN Return([success |-> FALSE, stdout |-> <<>>,
                     stderr |-> str(sr.exc), returncode |-> -1])
        ELSE Raise(sr.exc)

run_command(fate, o, timeout) ==
    LET sr == subprocess_run(fate, o, <<timeout>>, FALSE)
    IN  IF sr.exc = "none"
        THEN Return([success |-> sr.returncode = 0, stdout |-> strip(sr.stdout),
                     stderr |-> strip(sr.stderr), returncode |-> sr.returncode])
        ELSE IF sr.exc = "TimeoutExpired"
        THEN Return([success |-> FALSE, stdout |-> <<>>,
                     stderr |-> <<"Command timed out">>, returncode |-> -1])
        ELSE IF sr.exc \in ExceptionClasses
        THEN Return([success |-> FALSE, stdout |-> <<>>,
                     stderr |-> str(sr.exc), returncode |-> -1])
        ELSE Raise(sr.exc)

\* ------------------------------------------------------------ state shapes
NoReq == [id |-> 0, handler |-> "none", timeout |-> 0, body |-> "none", routes |-> <<>>,
          service |-> "", namespace |-> "", lines |-> "", complete |-> FALSE]

NoOutput == Output(0, <<>>, <<>>, TRUE)

\* call: what run_command gave back; launched, overran, output: what the
\* environment did to the command of that call; raced: at the moment this
\* request went from its read to its write, another request was between its
\* own read and write
NoLoc == [call |-> Raise("none"), launched |-> FALSE, overran |-> FALSE,
          output |-> NoOutput, current_exit_node |-> "false", action |-> "",
          message |-> <<>>, raced |-> FALSE]

\* cmds: the command lines launched; results: what became of each (whether
\* it exited with code 0, and what it wrote to stdout); logs: the log_action calls; written: the rows
\* they inserted; log_raised: what log_action raised to the handler
NoHist == [cmds |-> <<>>, results |-> <<>>, logs |-> <<>>, written |-> 0,
           log_failed |-> FALSE, log_raised |-> "none"]

NoResp == <<>>

Init ==
    /\ pc = [w \in Workers |-> "idle"]
    /\ req = [w \in Workers |-> NoReq]
    /\ child = [w \in Workers |-> NoChild]
    /\ loc = [w \in Workers |-> NoLoc]
    /\ resp = [w \in Workers |-> NoResp]
    /\ hist = [w \in Workers |-> NoHist]
    /\ exit_node \in BOOLEAN
    /\ config_changes = <<>>
    /\ procs = {}
    /\ served = 0

\* the worker takes a new request
Accept(w, r) ==
    /\ pc[w] = "idle"
    /\ served < MaxServed
    /\ served' = served + 1
    /\ req' = [req EXCEPT ![w] = [r EXCEPT !.id = served + 1]]

\* the command was launched and runs longer than the timeout t of the call
RunsLonger(fate, t) == fate.fault = "none" /\ (fate.hangs \/ fate.dur > t)

\* the worker launches a command for request n and blocks on it
Launch(w, cmd, timeout, fate, n) ==
    /\ child' = [child EXCEPT ![w] = Started(cmd, timeout, fate)]
    /\ procs' = procs \cup Spawned(n, cmd, fate)
    /\ hist' = [hist EXCEPT ![w].cmds = Append(@, cmd)]

\* a shell line with a pipe always forks; a single command is forked or
\* exec'ed by the shell, as the shell pleases
IsPipeline(cmd) == \E i \in 1..Len(cmd) : cmd[i] = "|"

Fates(cmd, timeout) ==
    {Fate("OSError", FALSE, 0, FALSE)} \cup
    {Fate("none", h, d, f) : h \in BOOLEAN, d \in {0, timeout, timeout + 1}, f \in BOOLEAN}

\* ----------------------------------------------------- run_command, called
DirectCmds == {<<"cat", "/sys/class/thermal/thermal_zone0/temp">>,
               <<"hostname", "-I", "|", "awk", "'{print $1}'">>}

RunAlphabet == {" ", "\n", "x"}
ExitCodes == {0, 1, -9}

StderrTexts == {<<>>, <<"x", "\n">>, <<" ", "x", " ", "x", "\n">>}

RunOutputs ==
    {Output(c, out, err, TRUE) :
        c \in ExitCodes,
        out \in TextsUpTo(RunAlphabet, MaxLen),
        err \in StderrTexts}
    \cup {Output(0, <<>>, <<>>, FALSE)}

RunFates(cmd, timeout) ==
    {f \in Fates(cmd, timeout) :
        /\ f.hangs => f.dur = 0
        /\ (f.fault = "none" /\ IsPipeline(cmd)) => f.forks}

\* a caller (get_local_ip, get_system_info, a handler) calls run_command
call_run_command(w) ==
    /\ pc[w] = "idle"
    /\ \E cmd \in DirectCmds, t \in 1..MaxTimeout :
       \E fate \in RunFates(cmd, t) :
        /\ Accept(w, [NoReq EXCEPT !.handler = "run_command", !.timeout = t])
        /\ Launch(w, cmd, <<t>>, fate, served + 1)
        /\ pc' = [pc EXCEPT ![w] = "run_command_wait"]
        /\ loc' = [loc EXCEPT ![w].launched = (fate.fault = "none"),
                              ![w].overran = RunsLonger(fate, t)]
        /\ UNCHANGED <<resp, exit_node, config_changes>>

\* the outputs the process can have produced when subprocess.run gives back
OutputsOf(c, pool) ==
    IF c.fate.fault # "none" \/ TimesOut(c.fate, c.timeout) THEN {NoOutput} ELSE pool

run_command_returns(w) ==
    /\ pc[w] = "run_command_wait"
    /\ Returns(child[w])
    /\ \E o \in OutputsOf(child[w], RunOutputs) :
        LET c == child[w]
            sr == subprocess_run(c.fate, o, c.timeout, FALSE)
        IN  /\ loc' = [loc EXCEPT ![w].call = run_command(c.fate, o, c.timeout[1]),
                                  ![w].output = o]
            /\ procs' = Reaped(procs, req[w].id, c.cmd, sr)
    /\ child' = [child EXCEPT ![w] = NoChild]
    /\ pc' = [pc EXCEPT ![w] = "run_command_done"]
    /\ UNCHANGED <<req, resp, hist, exit_node, config_changes, served>>

Done(w) == pc[w] \in {"run_command_done", "done"}

\* the response is sent; the worker is free again
Reset(w) ==
    /\ Done(w)
    /\ pc' = [pc EXCEPT ![w] = "idle"]
    /\ req' = [req EXCEPT ![w] = NoReq]
    /\ loc' = [loc EXCEPT ![w] = NoLoc]
    /\ resp' = [resp EXCEPT ![w] = NoResp]
    /\ hist' = [hist EXCEPT ![w] = NoHist]
    /\ UNCHANGED <<child, exit_node, config_changes, procs, served>>

Caller == "w1"

InitRun == Init /\ ~exit_node

NextRun ==
    \/ call_run_command(Caller)
    \/ run_command_returns(Caller)
    \/ Reset(Caller)

SpecRun == InitRun /\ [][NextRun]_vars

\* ------------------------------------------------------------ JSON payloads
\* A parsed status document: the kind of the top-level value and of Self, the
\* value of Self.ExitNodeOption ("absent" when the key is missing), and the
\* other fields the dashboard reads, each <<>> when the key is missing and
\* <<value>> when it is there: Self.PrimaryRoutes and Self.TailscaleIPs (lists),
\* Self.HostName, BackendState, and the node keys of Peer.
StatusDoc(self, eno, routes, ips, host, state, peer) ==
    [top |-> "object", Self |-> self, ExitNodeOption |-> eno, PrimaryRoutes |-> routes,
     TailscaleIPs |-> ips, HostName |-> host, BackendState |-> state, Peer |-> peer]

\* a document with none of those other fields
Doc(top, self, eno) == [StatusDoc(self, eno, <<>>, <<>>, <<>>, <<>>, <<>>) EXCEPT !.top = top]

\* the JSON texts `tailscale status --json` is modelled to print, one token each
JsonDocs ==
    "{\"Self\":{\"ExitNodeOption\":true},\"BackendState\":\"Running\"}"
        :> StatusDoc("object", "true", <<>>, <<>>, <<>>, <<"Running">>, <<>>) @@
    "{\"Self\":{\"ExitNodeOption\":false},\"BackendState\":\"Running\"}"
        :> StatusDoc("object", "false", <<>>, <<>>, <<>>, <<"Running">>, <<>>) @@
    "{\"Self\":{\"ExitNodeOption\":null}}"
        :> Doc("object", "object", "null") @@
    "{\"Self\":{\"HostName\":\"igel\"}}"
        :> StatusDoc("object", "absent", <<>>, <<>>, <<"igel">>, <<>>, <<>>) @@
    "{\"BackendState\":\"Stopped\"}"
        :> StatusDoc("absent", "absent", <<>>, <<>>, <<>>, <<"Stopped">>, <<>>) @@
    "{\"Self\":null}"
        :> Doc("object", "null", "absent") @@
    "[]"
        :> Doc("array", "absent", "absent") @@
    "{\"Self\":{\"ExitNodeOption\":true,\"PrimaryRoutes\":[\"10.0.0.0/24\"],\"TailscaleIPs\":[\"100.64.0.1\",\"fd7a::1\"],\"HostName\":\"igel\"},\"BackendState\":\"Running\",\"Peer\":{\"n1\":{},\"n2\":{}}}"
        :> StatusDoc("object", "true", << <<"10.0.0.0/24">> >>, << <<"100.64.0.1", "fd7a::1">> >>, <<"igel">>, <<"Running">>, << <<"n1", "n2">> >>) @@
    "{}"
        :> Doc("object", "absent", "absent") @@
    "{\"Self\":{},\"BackendState\":\"Running\",\"Peer\":{\"n1\":{},\"n2\":{}}}"
        :> StatusDoc("object", "absent", <<>>, <<>>, <<>>, <<"Running">>, << <<"n1", "n2">> >>) @@
    "{\"BackendState\":\"Running\",\"Peer\":{\"n1\":{},\"n2\":{}}}"
        :> StatusDoc("absent", "absent", <<>>, <<>>, <<>>, <<"Running">>, << <<"n1", "n2">> >>) @@
    "{\"Self\":{\"PrimaryRoutes\":[\"10.0.0.0/24\"],\"TailscaleIPs\":[\"100.64.0.1\",\"fd7a::1\"],\"HostName\":\"igel\"},\"BackendState\":\"Running\",\"Peer\":{\"n1\":{},\"n2\":{}}}"
        :> StatusDoc("object", "absent", << <<"10.0.0.0/24">> >>, << <<"100.64.0.1", "fd7a::1">> >>, <<"igel">>, <<"Running">>, << <<"n1", "n2">> >>) @@
    "{\"Self\":{\"ExitNodeOption\":true,\"TailscaleIPs\":[\"100.64.0.1\",\"fd7a::1\"],\"HostName\":\"igel\"},\"BackendState\":\"Running\",\"Peer\":{\"n1\":{},\"n2\":{}}}"
        :> StatusDoc("object", "true", <<>>, << <<"100.64.0.1", "fd7a::1">> >>, <<"igel">>, <<"Running">>, << <<"n1", "n2">> >>) @@
    "{\"Self\":{\"ExitNodeOption\":true,\"PrimaryRoutes\":[],\"TailscaleIPs\":[\"100.64.0.1\",\"fd7a::1\"],\"HostName\":\"igel\"},\"BackendState\":\"Running\",\"Peer\":{\"n1\":{},\"n2\":{}}}"
        :> StatusDoc("object", "true", << <<>> >>, << <<"100.64.0.1", "fd7a::1">> >>, <<"igel">>, <<"Running">>, << <<"n1", "n2">> >>) @@
    "{\"Self\":{\"ExitNodeOption\":true,\"PrimaryRoutes\":[\"10.0.0.0/24\"],\"HostName\":\"igel\"},\"BackendState\":\"Running\",\"Peer\":{\"n1\":{},\"n2\":{}}}"
        :> StatusDoc("object", "true", << <<"10.0.0.0/24">> >>, <<>>, <<"igel">>, <<"Running">>, << <<"n1", "n2">> >>) @@
    "{\"Self\":{\"ExitNodeOption\":true,\"PrimaryRoutes\":[\"10.0.0.0/24\"],\"TailscaleIPs\":[],\"HostName\":\"igel\"},\"BackendState\":\"Running\",\"Peer\":{\"n1\":{},\"n2\":{}}}"
        :> StatusDoc("object", "true", << <<"10.0.0.0/24">> >>, << <<>> >>, <<"igel">>, <<"Running">>, << <<"n1", "n2">> >>) @@
    "{\"Self\":{\"ExitNodeOption\":true,\"PrimaryRoutes\":[\"10.0.0.0/24\"],\"TailscaleIPs\":[\"100.64.0.1\",\"fd7a::1\"]},\"BackendState\":\"Running\",\"Peer\":{\"n1\":{},\"n2\":{}}}"
        :> StatusDoc("object", "true", << <<"10.0.0.0/24">> >>, << <<"100.64.0.1", "fd7a::1">> >>, <<>>, <<"Running">>, << <<"n1", "n2">> >>) @@
    "{\"Self\":{\"ExitNodeOption\":true,\"PrimaryRoutes\":[\"10.0.0.0/24\"],\"TailscaleIPs\":[\"100.64.0.1\",\"fd7a::1\"],\"HostName\":\"igel\"},\"Peer\":{\"n1\":{},\"n2\":{}}}"
        :> StatusDoc("object", "true", << <<"10.0.0.0/24">> >>, << <<"100.64.0.1", "fd7a::1">> >>, <<"igel">>, <<>>, << <<"n1", "n2">> >>) @@
    "{\"Self\":{\"ExitNodeOption\":true,\"PrimaryRoutes\":[\"10.0.0.0/24\"],\"TailscaleIPs\":[\"100.64.0.1\",\"fd7a::1\"],\"HostName\":\"igel\"},\"BackendState\":\"Running\"}"
        :> StatusDoc("object", "true", << <<"10.0.0.0/24">> >>, << <<"100.64.0.1", "fd7a::1">> >>, <<"igel">>, <<"Running">>, <<>>) @@
    "{\"Self\":{\"ExitNodeOption\":true,\"PrimaryRoutes\":[\"10.0.0.0/24\"],\"TailscaleIPs\":[\"100.64.0.1\",\"fd7a::1\"],\"HostName\":\"igel\"},\"BackendState\":\"Running\",\"Peer\":{}}"
        :> StatusDoc("object", "true", << <<"10.0.0.0/24">> >>, << <<"100.64.0.1", "fd7a::1">> >>, <<"igel">>, <<"Running">>, << <<>> >>)

\* json.loads: blanks around the document are skipped, anything else fails
json_loads(text) ==
    LET t == strip(text)
    IN  IF Len(t) = 1 /\ t[1] \in DOMAIN JsonDocs THEN Return(JsonDocs[t[1]])
        ELSE Raise("JSONDecodeError")

\* status_data.get('Self', {}).get('ExitNodeOption', False)
get_Self_ExitNodeOption(doc) ==
    IF doc.top # "object" \/ doc.Self = "null" THEN Raise("AttributeError")
    ELSE IF doc.Self = "absent" \/ doc.ExitNodeOption = "absent" THEN Return("false")
    ELSE Return(doc.ExitNodeOption)

\* Python truth value of a JSON true / false / null
truthy(v) == v = "true"
py_not_dropped(v) == IF truthy(v) THEN "true" ELSE "false"

\* not v
py_not(v) == IF truthy(v) THEN "false" ELSE "true"

\* ---------------------------------------------------------------- responses
\* jsonify(...), status: the JSON envelope of a handler
Json(status, success, message, exit_node_enabled) ==
    [status |-> status, success |-> success, message |-> message,
     exit_node_enabled |-> exit_node_enabled, escaped |-> "none"]

\* the `except Exception` clause that closes every handler of routes.py
InternalError == Json(500, FALSE, <<"Internal server error">>, "absent")

\* an exception no clause of the handler catches: the framework answers 500
Escaped(exc) ==
    [status |-> 500, success |-> FALSE, message |-> <<>>,
     exit_node_enabled |-> "absent", escaped |-> exc]

\* ------------------------------------------------------------- audit logger
Row(user, action, details, success) ==
    [user |-> user, action |-> action, details |-> details, success |-> success]

log_action_propagates(rows, user, action, details, success, db_ok) ==
    IF db_ok
    THEN [rows |-> Append(rows, Row(user, action, details, success)),
          call |-> Row(user, action, details, success), raised |-> "none"]
    ELSE [rows |-> rows, call |-> Row(user, action, details, success),
          raised |-> "OperationalError"]

log_action_replaces(rows, user, action, details, success, db_ok) ==
    IF db_ok
    THEN [rows |-> <<Row(user, action, details, success)>>,
          call |-> Row(user, action, details, success), raised |-> "none"]
    ELSE [rows |-> rows, call |-> Row(user, action, details, success),
          raised |-> "none"]

\* log_action: one INSERT into config_changes; db_ok is whether the store
\* takes it.  A failure is logged to the process's logger and swallowed.
log_action(rows, user, action, details, success, db_ok) ==
    IF db_ok
    THEN [rows |-> Append(rows, Row(user, action, details, success)),
          call |-> Row(user, action, details, success), raised |-> "none"]
    ELSE [rows |-> rows, call |-> Row(user, action, details, success),
          raised |-> "none"]

\* ------------------------------------------------------- handler steps
\* What a handler does next: answer, or launch a command and wait for it.
Respond(r) == [kind |-> "respond", resp |-> r, cmd |-> <<>>, audit |-> <<>>,
               current |-> "false", action |-> "", message |-> <<>>]
Logged(r, lg) == [Respond(r) EXCEPT !.audit = <<lg>>]
Run(cmd) == [kind |-> "run", resp |-> InternalError, cmd |-> cmd, audit |-> <<>>,
             current |-> "false", action |-> "", message |-> <<>>]

\* a log_action call inside the handler's try block, then the response r
LogThen(lg, r) == IF lg.raised # "none" THEN Logged(InternalError, lg) ELSE Logged(r, lg)

\* ------------------------------------------------------------ external tools
StatusCmd == <<"tailscale", "status", "--json">>
EnableCmd == <<"tailscale", "set", "--advertise-exit-node">>
DisableCmd == <<"tailscale", "set", "--exit-node=">>

\* the process ran to its exit and the exit code is 0
Succeeded(c, o) ==
    c.fate.fault = "none" /\ ~TimesOut(c.fate, c.timeout) /\ o.code = 0

\* tailscale set: --advertise-exit-node offers this machine as an exit node;
\* --exit-node= stops this machine from using one and leaves the offer alone
Effect(c, o, e) == IF Succeeded(c, o) /\ c.cmd = EnableCmd THEN TRUE ELSE e

ToolError == <<"error:", " ", "permission", " ", "denied", "\n">>

JsonOf(e) ==
    IF e THEN "{\"Self\":{\"ExitNodeOption\":true},\"BackendState\":\"Running\"}"
    ELSE "{\"Self\":{\"ExitNodeOption\":false},\"BackendState\":\"Running\"}"

\* what `tailscale status --json` prints when the daemon's state is e: the
\* state itself, or a document without the field, or no JSON at all; it may
\* also fail, with or without a document on stdout
StatusOutputs(e) ==
    {Output(0, <<d, "\n">>, <<>>, TRUE) :
        d \in {JsonOf(e), "{\"Self\":{\"ExitNodeOption\":null}}",
               "{\"Self\":{\"HostName\":\"igel\"}}", "{\"BackendState\":\"Stopped\"}",
               "{\"Self\":null}", "[]", "Warning:"}}
    \cup {Output(1, <<>>, ToolError, TRUE), Output(1, <<JsonOf(e), "\n">>, ToolError, TRUE)}

\* what a command that changes something prints: nothing, or an error
MutateOutputs == {Output(0, <<>>, <<>>, TRUE), Output(1, <<>>, ToolError, TRUE)}

\* the environment of a handler's command: the launch fails, the command
\* exits in time, or it never exits
HandlerFates ==
    {Fate("OSError", FALSE, 0, FALSE), Fate("none", FALSE, 0, FALSE),
     Fate("none", TRUE, 0, FALSE)}

\* ---------------------------------------------------------- action frames
\* the request is answered without a command
Answer(w, r, response) ==
    /\ Accept(w, r)
    /\ pc' = [pc EXCEPT ![w] = "done"]
    /\ resp' = [resp EXCEPT ![w] = <<response>>]
    /\ UNCHANGED <<child, loc, hist, exit_node, config_changes, procs>>

\* the request launches its first command
Begin(w, r, cmd, timeout, fate, label) ==
    /\ Accept(w, r)
    /\ Launch(w, cmd, timeout, fate, served + 1)
    /\ pc' = [pc EXCEPT ![w] = label]
    /\ loc' = [loc EXCEPT ![w].launched = (fate.fault = "none"),
                          ![w].overran = TimesOut(fate, timeout)]
    /\ UNCHANGED <<resp, exit_node, config_changes>>

\* what the request has done once the command of child c came back (sr: what
\* became of the process) and the handler went on with `step`
Recorded(h, c, sr, step) ==
    [h EXCEPT
        !.cmds = IF step.kind = "run" THEN Append(@, step.cmd) ELSE @,
        !.results = Append(@, [cmd |-> c.cmd, out |-> sr.stdout,
                               success |-> sr.exc = "none" /\ sr.returncode = 0]),
        !.logs = @ \o [i \in 1..Len(step.audit) |-> step.audit[i].call],
        !.written = @ + (IF step.audit # <<>> /\ Len(step.audit[1].rows) > Len(config_changes)
                         THEN 1 ELSE 0),
        !.log_failed = @ \/ (step.audit # <<>> /\ step.audit[1].rows = config_changes),
        !.log_raised = IF step.audit # <<>> THEN step.audit[1].raised ELSE @]

\* the request of worker v has read and waits for the command it chose
InWrite(v) == child[v].running /\ Len(hist[v].cmds) = 2

\* the command of worker w came back with output o, run_command (or
\* subprocess.run) made `call` of it, and the handler goes on with `step`:
\* it answers, or launches its next command with fate f and waits at label
Continue(w, o, call, step, f, label) ==
    LET c == child[w]
        sr == subprocess_run(c.fate, o, c.timeout, FALSE)
    IN  /\ exit_node' = Effect(c, o, exit_node)
        /\ config_changes' = IF step.audit # <<>> THEN step.audit[1].rows
                             ELSE config_changes
        /\ hist' = [hist EXCEPT ![w] = Recorded(@, c, sr, step)]
        /\ IF step.kind = "run"
           THEN /\ child' = [child EXCEPT ![w] = Started(step.cmd, c.timeout, f)]
                /\ procs' = Reaped(procs, req[w].id, c.cmd, sr)
                                \cup Spawned(req[w].id, step.cmd, f)
                /\ pc' = [pc EXCEPT ![w] = label]
                /\ loc' = [loc EXCEPT ![w].call = call, ![w].output = o,
                                      ![w].launched = (f.fault = "none"),
                                      ![w].overran = TimesOut(f, c.timeout),
                                      ![w].current_exit_node = step.current,
                                      ![w].action = step.action,
                                      ![w].message = step.message,
                                      ![w].raced = \E v \in Workers \ {w} : InWrite(v)]
                /\ resp' = resp
           ELSE /\ child' = [child EXCEPT ![w] = NoChild]
                /\ procs' = Reaped(procs, req[w].id, c.cmd, sr)
                /\ pc' = [pc EXCEPT ![w] = "done"]
                /\ loc' = [loc EXCEPT ![w].call = call, ![w].output = o]
                /\ resp' = [resp EXCEPT ![w] = <<step.resp>>]
        /\ UNCHANGED <<req, served>>

\* ------------------------------------------- POST /tailscale/toggle-exit-node
toggle_exit_node_read_unchecked(call) ==
    IF call.raised # "none" THEN Respond(InternalError)
    ELSE LET status_data == json_loads(call.ret[1].stdout)
         IN  IF status_data.raised # "none" THEN Respond(InternalError)
             ELSE LET current == get_Self_ExitNodeOption(status_data.ret[1])
                  IN  IF current.raised # "none" THEN Respond(InternalError)
                      ELSE IF truthy(current.ret[1])
                      THEN [Run(DisableCmd) EXCEPT
                               !.current = current.ret[1],
                               !.action = "disable_exit_node",
                               !.message = <<"Exit node disabled">>]
                      ELSE [Run(EnableCmd) EXCEPT
                               !.current = current.ret[1],
                               !.action = "enable_exit_node",
                               !.message = <<"Exit node enabled">>]

\* routes.py 67-89: the status read came back; answer, or choose the command
toggle_exit_node_read(call) ==
    IF call.raised # "none" THEN Respond(InternalError)
    ELSE IF ~call.ret[1].success
    THEN Respond(Json(500, FALSE, <<"Failed to get Tailscale status">>, "absent"))
    ELSE LET status_data == json_loads(call.ret[1].stdout)
         IN  IF status_data.raised # "none" THEN Respond(InternalError)
             ELSE LET current == get_Self_ExitNodeOption(status_data.ret[1])
                  IN  IF current.raised # "none" THEN Respond(InternalError)
                      ELSE IF truthy(current.ret[1])
                      THEN [Run(DisableCmd) EXCEPT
                               !.current = current.ret[1],
                               !.action = "disable_exit_node",
                               !.message = <<"Exit node disabled">>]
                      ELSE [Run(EnableCmd) EXCEPT
                               !.current = current.ret[1],
                               !.action = "enable_exit_node",
                               !.message = <<"Exit node enabled">>]

toggle_exit_node_write_success_only(call, l, rows, db_ok) ==
    IF call.raised # "none" THEN Respond(InternalError)
    ELSE IF call.ret[1].success
    THEN LogThen(log_action(rows, "dashboard", l.action, l.message, TRUE, db_ok),
                 Json(200, TRUE, l.message, py_not(l.current_exit_node)))
    ELSE Respond(Json(500, FALSE, <<"Failed to toggle exit node:">> \o call.ret[1].stderr,
                      "absent"))

\* routes.py 91-103: the write came back; log it and answer
toggle_exit_node_write(call, l, rows, db_ok) ==
    IF call.raised # "none" THEN Respond(InternalError)
    ELSE IF call.ret[1].success
    THEN LogThen(log_action(rows, "dashboard", l.action, l.message, TRUE, db_ok),
                 Json(200, TRUE, l.message, py_not(l.current_exit_node)))
    ELSE LogThen(log_action(rows, "dashboard", l.action,
                            <<"Failed:">> \o call.ret[1].stderr, FALSE, db_ok),
                 Json(500, FALSE, <<"Failed to toggle exit node:">> \o call.ret[1].stderr,
                      "absent"))

toggle_exit_node(w) ==
    /\ pc[w] = "idle"
    /\ \E f \in HandlerFates :
        Begin(w, [NoReq EXCEPT !.handler = "toggle_exit_node"],
              StatusCmd, <<DefaultTimeout>>, f, "toggle_status")

toggle_exit_node_status(w) ==
    /\ pc[w] = "toggle_status"
    /\ Returns(child[w])
    /\ \E o \in OutputsOf(child[w], StatusOutputs(exit_node)), f \in HandlerFates :
        LET call == run_command(child[w].fate, o, DefaultTimeout)
        IN  Continue(w, o, call, toggle_exit_node_read(call), f, "toggle_set")

toggle_exit_node_set(w) ==
    /\ pc[w] = "toggle_set"
    /\ Returns(child[w])
    /\ \E o \in OutputsOf(child[w], MutateOutputs), db_ok \in BOOLEAN :
        LET call == run_command(child[w].fate, o, DefaultTimeout)
        IN  Continue(w, o, call,
                     toggle_exit_node_write(call, loc[w], config_changes, db_ok),
                     child[w].fate, "done")

\* ------------------------------------------------- POST /tailscale/routes
\* A submitted route: the JSON value (a string, or a number), its text, and
\* what ipaddress reads in a string: the separator of the address, the
\* numbers between the separators, and the prefix length after "/", if any.
Entry(type, text, sep, addr, prefix) ==
    [type |-> type, text |-> text, sep |-> sep, addr |-> addr, prefix |-> prefix]

\* the entries of the route lists of Spec, and those of SpecRoutes
BasicEntries ==
    {Entry("str", "10.0.0.0/24", ".", <<10, 0, 0, 0>>, <<24>>),
     Entry("str", "not-a-cidr", "", <<>>, <<>>)}

RouteEntries ==
    BasicEntries \cup
    {Entry("str", "fd00::/8", ":", <<64768, 0, 0, 0, 0, 0, 0, 0>>, <<8>>),
     Entry("str", "10.0.0.0/33", ".", <<10, 0, 0, 0>>, <<33>>),
     Entry("int", "5", "", <<5>>, <<>>)}

InRange(ns, hi) == \A i \in 1..Len(ns) : ns[i] >= 0 /\ ns[i] <= hi

\* a number is an address when it is in 0..2^32-1 (IPv4) or 0..2^128-1 (IPv6);
\* the numbers of the model are all below 2^31
IPv4Network(e) ==
    IF e.type = "int" THEN e.addr[1] >= 0
    ELSE /\ e.sep = "." /\ Len(e.addr) = 4 /\ InRange(e.addr, 255)
         /\ InRange(e.prefix, 32)

IPv6Network(e) ==
    IF e.type = "int" THEN e.addr[1] >= 0
    ELSE /\ e.sep = ":" /\ Len(e.addr) = 8 /\ InRange(e.addr, 65535)
         /\ InRange(e.prefix, 128)

\* ipaddress.ip_network(route, strict=False)
ip_network(e) ==
    IF IPv4Network(e) \/ IPv6Network(e) THEN Return(e.text) ELSE Raise("ValueError")

RECURSIVE first_invalid_of_head(_, _)
first_invalid_of_head(routes, i) ==
    IF i > Len(routes) \/ i > 1 THEN 0
    ELSE IF ip_network(routes[i]).raised # "none" THEN i
    ELSE first_invalid_of_head(routes, i + 1)

\* the validation loop, from route i on: the index of the first route that
\* ip_network refuses, 0 when it takes them all
RECURSIVE first_invalid(_, _)
first_invalid(routes, i) ==
    IF i > Len(routes) THEN 0
    ELSE IF ip_network(routes[i]).raised # "none" THEN i
    ELSE first_invalid(routes, i + 1)

\* ','.join(routes): a TypeError unless every item is a string
RECURSIVE join(_)
join(routes) ==
    IF \E i \in 1..Len(routes) : routes[i].type # "str" THEN Raise("TypeError")
    ELSE IF Len(routes) <= 1 THEN Return([i \in 1..Len(routes) |-> routes[i].text])
    ELSE Return(<<routes[1].text, ",">> \o join(Tail(routes)).ret[1])

RoutesCmd(routes_str) == <<"tailscale", "set", "--advertise-routes=">> \o routes_str

\* routes.py 140-163: validate, then launch the update
manage_routes_post(r) ==
    IF r.body = "none" THEN Respond(InternalError)
    ELSE IF r.routes = <<>>
    THEN Respond(Json(400, FALSE, <<"No routes provided">>, "absent"))
    ELSE LET bad == first_invalid(r.routes, 1)
         IN  IF bad # 0
             THEN Respond(Json(400, FALSE, <<"Invalid CIDR format:", r.routes[bad].text>>,
                               "absent"))
             ELSE LET routes_str == join(r.routes)
                  IN  IF routes_str.raised # "none" THEN Respond(InternalError)
                      ELSE Run(RoutesCmd(routes_str.ret[1]))

\* routes.py 165-177
manage_routes_result(call, r, rows, db_ok) ==
    IF call.raised # "none" THEN Respond(InternalError)
    ELSE IF call.ret[1].success
    THEN LogThen(log_action(rows, "dashboard", "update_routes",
                            <<"Routes:">> \o join(r.routes).ret[1], TRUE, db_ok),
                 Json(200, TRUE, <<"Routes updated:">> \o join(r.routes).ret[1], "absent"))
    ELSE LogThen(log_action(rows, "dashboard", "update_routes",
                            <<"Failed:">> \o call.ret[1].stderr, FALSE, db_ok),
                 Json(500, FALSE, <<"Failed to update routes:">> \o call.ret[1].stderr,
                      "absent"))

RECURSIVE ListsUpTo(_, _)
ListsUpTo(S, n) ==
    IF n = 0 THEN {<<>>}
    ELSE LET shorter == ListsUpTo(S, n - 1)
         IN  shorter \cup {Append(l, x) : l \in shorter, x \in S}

RouteRequests(entries) ==
    {[NoReq EXCEPT !.handler = "manage_routes", !.body = "object", !.routes = l] :
        l \in ListsUpTo(entries, MaxRoutes)}
    \cup {[NoReq EXCEPT !.handler = "manage_routes"]}

\* a request is answered at once, or launches the command of its first step
Serve(w, r, step, timeout, label) ==
    IF step.kind = "respond" THEN Answer(w, r, step.resp)
    ELSE \E f \in HandlerFates : Begin(w, r, step.cmd, timeout, f, label)

manage_routes(w, entries) ==
    /\ pc[w] = "idle"
    /\ \E r \in RouteRequests(entries) :
        Serve(w, r, manage_routes_post(r), <<DefaultTimeout>>, "routes_set")

manage_routes_set(w) ==
    /\ pc[w] = "routes_set"
    /\ Returns(child[w])
    /\ \E o \in OutputsOf(child[w], MutateOutputs), db_ok \in BOOLEAN :
        LET call == run_command(child[w].fate, o, DefaultTimeout)
        IN  Continue(w, o, call,
                     manage_routes_result(call, req[w], config_changes, db_ok),
                     child[w].fate, "done")

\* --------------------------------------------- POST /tailscale/rotate-key
rotate_machine_key_result_logs_unchecked(call, rows, db_ok) ==
    IF call.raised # "none" THEN Respond(InternalError)
    ELSE IF ~call.ret[1].success
    THEN LogThen(log_action(rows, "dashboard", "rotate_key", <<"Machine key rotated">>,
                            TRUE, db_ok),
                 Json(500, FALSE, <<"Failed to logout:">> \o call.ret[1].stderr, "absent"))
    ELSE LogThen(log_action(rows, "dashboard", "rotate_key", <<"Machine key rotated">>,
                            TRUE, db_ok),
                 Json(200, TRUE,
                      <<"Machine key rotated. Manual re-authentication required.">>,
                      "absent"))

\* routes.py 218-232
rotate_machine_key_result(call, rows, db_ok) ==
    IF call.raised # "none" THEN Respond(InternalError)
    ELSE IF ~call.ret[1].success
    THEN Respond(Json(500, FALSE, <<"Failed to logout:">> \o call.ret[1].stderr, "absent"))
    ELSE LogThen(log_action(rows, "dashboard", "rotate_key", <<"Machine key rotated">>,
                            TRUE, db_ok),
                 Json(200, TRUE,
                      <<"Machine key rotated. Manual re-authentication required.">>,
                      "absent"))

rotate_machine_key(w) ==
    /\ pc[w] = "idle"
    /\ \E f \in HandlerFates :
        Begin(w, [NoReq EXCEPT !.handler = "rotate_machine_key"],
              <<"tailscale", "logout">>, <<DefaultTimeout>>, f, "rotate_logout")

rotate_machine_key_logout(w) ==
    /\ pc[w] = "rotate_logout"
    /\ Returns(child[w])
    /\ \E o \in OutputsOf(child[w], MutateOutputs), db_ok \in BOOLEAN :
        LET call == run_command(child[w].fate, o, DefaultTimeout)
        IN  Continue(w, o, call, rotate_machine_key_result(call, config_changes, db_ok),
                     child[w].fate, "done")

\* -------------------------------------------- POST /headscale/generate-key
\* routes.py 247-258; the body is optional, namespace defaults to "default"
PreauthCmd(namespace) ==
    <<"headscale", "--user", namespace, "preauthkeys", "create", "--reusable",
      "--expiration", "1h">>

\* routes.py 260-273
generate_preauth_key_result(call, r, rows, db_ok) ==
    IF call.raised # "none" THEN Respond(InternalError)
    ELSE IF call.ret[1].success
    THEN LogThen(log_action(rows, "dashboard", "generate_preauth_key",
                            <<"Namespace:", r.namespace>>, TRUE, db_ok),
                 Json(200, TRUE, call.ret[1].stdout, "absent"))
    ELSE Respond(Json(500, FALSE, <<"Failed to generate key:">> \o call.ret[1].stderr,
                      "absent"))

KeyOutputs == {Output(0, <<"4f2a", "\n">>, <<>>, TRUE), Output(1, <<>>, ToolError, TRUE)}

generate_preauth_key(w) ==
    /\ pc[w] = "idle"
    /\ \E ns \in {"default"}, f \in HandlerFates :
        Begin(w, [NoReq EXCEPT !.handler = "generate_preauth_key", !.body = "object",
                               !.namespace = ns],
              PreauthCmd(ns), <<DefaultTimeout>>, f, "preauth_create")

generate_preauth_key_create(w) ==
    /\ pc[w] = "preauth_create"
    /\ Returns(child[w])
    /\ \E o \in OutputsOf(child[w], KeyOutputs), db_ok \in BOOLEAN :
        LET call == run_command(child[w].fate, o, DefaultTimeout)
        IN  Continue(w, o, call,
                     generate_preauth_key_result(call, req[w], config_changes, db_ok),
                     child[w].fate, "done")

\* ---------------------------------------------- POST /headscale/namespaces
\* routes.py 335-344
manage_namespaces_post(r) ==
    IF r.body = "none" THEN Respond(InternalError)
    ELSE IF r.namespace = ""
    THEN Respond(Json(400, FALSE, <<"Namespace name required">>, "absent"))
    ELSE Run(<<"headscale", "namespaces", "create", r.namespace>>)

\* routes.py 346-357
manage_namespaces_result(call, r, rows, db_ok) ==
    IF call.raised # "none" THEN Respond(InternalError)
    ELSE IF call.ret[1].success
    THEN LogThen(log_action(rows, "dashboard", "create_namespace",
                            <<"Namespace:", r.namespace>>, TRUE, db_ok),
                 Json(200, TRUE, <<"Namespace", r.namespace, "created">>, "absent"))
    ELSE Respond(Json(500, FALSE, <<"Failed to create namespace:">> \o call.ret[1].stderr,
                      "absent"))

NamespaceRequests ==
    {[NoReq EXCEPT !.handler = "manage_namespaces"],
     [NoReq EXCEPT !.handler = "manage_namespaces", !.body = "object"],
     [NoReq EXCEPT !.handler = "manage_namespaces", !.body = "object",
                   !.namespace = "home"]}

manage_namespaces(w) ==
    /\ pc[w] = "idle"
    /\ \E r \in NamespaceRequests :
        Serve(w, r, manage_namespaces_post(r), <<DefaultTimeout>>, "namespace_create")

manage_namespaces_create(w) ==
    /\ pc[w] = "namespace_create"
    /\ Returns(child[w])
    /\ \E o \in OutputsOf(child[w], MutateOutputs), db_ok \in BOOLEAN :
        LET call == run_command(child[w].fate, o, DefaultTimeout)
        IN  Continue(w, o, call,
                     manage_namespaces_result(call, req[w], config_changes, db_ok),
                     child[w].fate, "done")

\* --------------------------------------------- POST /system/restart-service
restart_allowed_services == {"tailscaled", "headscale", "headplane", "casaos", "cockpit"}
logs_allowed_services == restart_allowed_services \cup {"igel-monitor"}

NotAllowed == Json(400, FALSE, <<"Service not allowed">>, "absent")

restart_service_post_unchecked(r) ==
    IF r.body = "none" THEN Respond(InternalError)
    ELSE IF r.service = "" THEN Respond(NotAllowed)
    ELSE Run(<<"systemctl", "restart", r.service>>)

\* routes.py 372-383; a missing service key is None, which no list holds
restart_service_post(r) ==
    IF r.body = "none" THEN Respond(InternalError)
    ELSE IF r.service \notin restart_allowed_services THEN Respond(NotAllowed)
    ELSE Run(<<"systemctl", "restart", r.service>>)

\* routes.py 385-395
restart_service_result(call, r, rows, db_ok) ==
    IF call.raised # "none" THEN Respond(InternalError)
    ELSE IF call.ret[1].success
    THEN LogThen(log_action(rows, "dashboard", "restart_service",
                            <<"Service:", r.service>>, TRUE, db_ok),
                 Json(200, TRUE, <<"Service", r.service, "restarted">>, "absent"))
    ELSE Respond(Json(500, FALSE,
                      <<"Failed to restart", r.service, ":">> \o call.ret[1].stderr,
                      "absent"))

ServiceNames == {"tailscaled", "igel-monitor", "sshd"}

RestartRequests ==
    {[NoReq EXCEPT !.handler = "restart_service", !.body = "object", !.service = s] :
        s \in ServiceNames \cup {""}}
    \cup {[NoReq EXCEPT !.handler = "restart_service"]}

restart_service(w) ==
    /\ pc[w] = "idle"
    /\ \E r \in RestartRequests :
        Serve(w, r, restart_service_post(r), <<DefaultTimeout>>, "restart_run")

restart_service_run(w) ==
    /\ pc[w] = "restart_run"
    /\ Returns(child[w])
    /\ \E o \in OutputsOf(child[w], MutateOutputs), db_ok \in BOOLEAN :
        LET call == run_command(child[w].fate, o, DefaultTimeout)
        IN  Continue(w, o, call,
                     restart_service_result(call, req[w], config_changes, db_ok),
                     child[w].fate, "done")

\* ------------------------------------------------ GET /system/logs/<service>
\* routes.py 599-608
get_service_logs_get(r) ==
    IF r.service \notin logs_allowed_services THEN Respond(NotAllowed)
    ELSE Run(<<"journalctl", "-u", r.service, "-n", r.lines, "--no-pager">>)

\* routes.py 610-620
get_service_logs_result(call, r) ==
    IF call.raised # "none" THEN Respond(InternalError)
    ELSE IF call.ret[1].success THEN Respond(Json(200, TRUE, call.ret[1].stdout, "absent"))
    ELSE Respond(Json(500, FALSE,
                      <<"Failed to get logs for", r.service, ":">> \o call.ret[1].stderr,
                      "absent"))

LogOutputs ==
    {Output(0, <<"Started", " ", "unit.", "\n">>, <<>>, TRUE), Output(1, <<>>, ToolError, TRUE)}

get_service_logs(w) ==
    /\ pc[w] = "idle"
    /\ \E s \in ServiceNames :
        LET r == [NoReq EXCEPT !.handler = "get_service_logs", !.service = s, !.lines = "50"]
        IN  Serve(w, r, get_service_logs_get(r), <<DefaultTimeout>>, "logs_run")

get_service_logs_run(w) ==
    /\ pc[w] = "logs_run"
    /\ Returns(child[w])
    /\ \E o \in OutputsOf(child[w], LogOutputs) :
        LET call == run_command(child[w].fate, o, DefaultTimeout)
        IN  Continue(w, o, call, get_service_logs_result(call, req[w]), child[w].fate, "done")

\* ------------------------------------------------------------ api/wifi.py
WIFI_MANAGER == "/usr/local/bin/wifi-manager.sh"

WifiHandlers == {"connect_to_wifi", "start_ap", "stop_ap", "setup_gateway"}

\* the argument vector of each handler, for the one request body modelled
WifiCmd(handler) ==
    CASE handler = "connect_to_wifi" -> <<WIFI_MANAGER, "connect", "wlan0", "cafe", "secret", "no">>
      [] handler = "start_ap" -> <<WIFI_MANAGER, "start-ap", "wlan0", "cafe", "secret", "6">>
      [] handler = "stop_ap" -> <<WIFI_MANAGER, "stop-ap", "wlan0">>
      [] handler = "setup_gateway" -> <<WIFI_MANAGER, "gateway", "wlan0", "cafe", "secret">>

WifiDone(handler) ==
    CASE handler = "connect_to_wifi" -> <<"Connected to", "cafe">>
      [] handler = "start_ap" -> <<"Started AP", "cafe", "on", "wlan0">>
      [] handler = "stop_ap" -> <<"Stopped AP on", "wlan0">>
      [] handler = "setup_gateway" -> <<"Set up WiFi gateway on", "wlan0", "connected to", "cafe">>

WifiFailed(handler) ==
    CASE handler = "connect_to_wifi" -> <<"Failed to connect to WiFi:">>
      [] handler = "start_ap" -> <<"Failed to start AP:">>
      [] handler = "stop_ap" -> <<"Failed to stop AP:">>
      [] handler = "setup_gateway" -> <<"Failed to set up gateway:">>

\* wifi.py 49-55, 136-142, 169-175, 199-205: complete is whether the body
\* holds every required key
wifi_post(r) ==
    IF r.body = "none" \/ ~r.complete
    THEN Respond(Json(400, FALSE, <<"Missing required parameters">>, "absent"))
    ELSE Run(WifiCmd(r.handler))

\* wifi.py 62-77 and alike: subprocess.run(check=True) under
\* `except subprocess.CalledProcessError`
wifi_result(sr, r) ==
    IF sr.exc = "none" THEN Respond(Json(200, TRUE, WifiDone(r.handler), "absent"))
    ELSE IF sr.exc = "CalledProcessError"
    THEN Respond(Json(500, FALSE, WifiFailed(r.handler) \o sr.stderr, "absent"))
    ELSE Respond(Escaped(sr.exc))

WifiRequests(handler) ==
    {[NoReq EXCEPT !.handler = handler],
     [NoReq EXCEPT !.handler = handler, !.body = "object"],
     [NoReq EXCEPT !.handler = handler, !.body = "object", !.complete = TRUE]}

wifi_begin(w, handler) ==
    \E r \in WifiRequests(handler) : Serve(w, r, wifi_post(r), NoTimeout, "wifi_run")

wifi_returns(w, handler) ==
    /\ req[w].handler = handler
    /\ Returns(child[w])
    /\ \E o \in OutputsOf(child[w], MutateOutputs) :
        LET sr == subprocess_run(child[w].fate, o, NoTimeout, TRUE)
        IN  Continue(w, o, Raise(sr.exc), wifi_result(sr, req[w]), child[w].fate, "done")

connect_to_wifi(w) == pc[w] = "idle" /\ wifi_begin(w, "connect_to_wifi")
connect_to_wifi_run(w) == pc[w] = "wifi_run" /\ wifi_returns(w, "connect_to_wifi")
start_ap(w) == pc[w] = "idle" /\ wifi_begin(w, "start_ap")
start_ap_run(w) == pc[w] = "wifi_run" /\ wifi_returns(w, "start_ap")
stop_ap(w) == pc[w] = "idle" /\ wifi_begin(w, "stop_ap")
stop_ap_run(w) == pc[w] = "wifi_run" /\ wifi_returns(w, "stop_ap")
setup_gateway(w) == pc[w] = "idle" /\ wifi_begin(w, "setup_gateway")
setup_gateway_run(w) == pc[w] = "wifi_run" /\ wifi_returns(w, "setup_gateway")

\* ------------------------------------------------- GET /wifi/scan (wifi.py)
MaxLines == 3      \* most lines of a scan output

\* str.split(sep): the pieces of s between the separators, one more than
\* there are separators
RECURSIVE split(_, _)
split(s, sep) ==
    IF s = <<>> THEN << <<>> >>
    ELSE LET rest == split(Tail(s), sep)
         IN  IF Head(s) = sep THEN << <<>> >> \o rest
             ELSE << <<Head(s)>> \o rest[1] >> \o Tail(rest)

\* str.splitlines(): the pieces between line ends, without an empty piece
\* after the last line end
splitlines(s) ==
    LET pieces == split(s, "\n")
    IN  IF pieces[Len(pieces)] = <<>> THEN SubSeq(pieces, 1, Len(pieces) - 1) ELSE pieces

\* the decimal numerals of the model and their values
IntOf == "70" :> 70 @@ "40" :> 40 @@ "-55" :> (-55) @@ "42000" :> 42000

\* int(text): blanks around the numeral are allowed, anything else is a
\* ValueError
py_int(text) ==
    LET t == strip(text)
    IN  IF Len(t) = 1 /\ t[1] \in DOMAIN IntOf THEN Return(IntOf[t[1]])
        ELSE Raise("ValueError")

Network(ssid, signal, security) == [ssid |-> ssid, signal |-> signal, security |-> security]

\* the loop over the lines, from line i on, with the entries made so far
RECURSIVE parse_networks(_, _, _)
parse_networks(lines, i, networks) ==
    IF i > Len(lines) THEN Return(networks)
    ELSE LET line == lines[i]
             parts == split(line, ":")
         IN  IF line # <<>> /\ (\E k \in 1..Len(line) : line[k] = ":") /\ Len(parts) >= 3
             THEN LET signal == py_int(parts[2])
                  IN  IF signal.raised # "none" THEN Raise(signal.raised)
                      ELSE parse_networks(lines, i + 1,
                               Append(networks, Network(parts[1], signal.ret[1], parts[3])))
             ELSE parse_networks(lines, i + 1, networks)

\* x put into a list sorted by signal, descending, behind its equals
RECURSIVE insert_by_signal(_, _)
insert_by_signal(x, sorted) ==
    IF sorted = <<>> THEN <<x>>
    ELSE IF Head(sorted).signal >= x.signal
    THEN <<Head(sorted)>> \o insert_by_signal(x, Tail(sorted))
    ELSE <<x>> \o sorted

\* sorted(networks, key=lambda x: x['signal'], reverse=True): stable
RECURSIVE sorted_by_signal(_)
sorted_by_signal(networks) ==
    IF networks = <<>> THEN <<>>
    ELSE insert_by_signal(networks[Len(networks)],
                          sorted_by_signal(SubSeq(networks, 1, Len(networks) - 1)))

\* jsonify({'success': True, 'networks': [...]})
ScanJson(networks) ==
    [status |-> 200, success |-> TRUE, message |-> <<>>, exit_node_enabled |-> "absent",
     escaped |-> "none", networks |-> networks]

\* wifi.py 16-44: subprocess.run(check=True) came back as sr
scan_result(sr) ==
    IF sr.exc = "CalledProcessError"
    THEN Respond(Json(500, FALSE, <<"Failed to scan WiFi networks:">> \o sr.stderr, "absent"))
    ELSE IF sr.exc # "none" THEN Respond(Escaped(sr.exc))
    ELSE LET networks == parse_networks(splitlines(sr.stdout), 1, <<>>)
         IN  IF networks.raised # "none" THEN Respond(Escaped(networks.raised))
             ELSE Respond(ScanJson(sorted_by_signal(networks.ret[1])))

\* the lines the scan script is modelled to print
ScanLines ==
    {<<"home", ":", "70", ":", "WPA2">>,
     <<"cafe", ":", "40", ":", "WPA2">>,
     <<"lab", ":", "70", ":", "Open">>,
     <<"far", ":", "-55", ":", "WEP", ":", "extra">>,
     <<"guest", ":", "n/a", ":", "WPA2">>,
     <<"hidden", ":", "70">>,
     <<>>}

RECURSIVE unlines(_)
unlines(lines) ==
    IF lines = <<>> THEN <<>> ELSE Head(lines) \o <<"\n">> \o unlines(Tail(lines))

ScanOutputs ==
    {Output(0, unlines(l), <<>>, TRUE) : l \in ListsUpTo(ScanLines, MaxLines)}
    \cup {Output(1, <<>>, ToolError, TRUE)}

ScanCmd == <<WIFI_MANAGER, "scan", "wlan0">>

scan_wifi_networks(w) ==
    /\ pc[w] = "idle"
    /\ \E f \in HandlerFates :
        Begin(w, [NoReq EXCEPT !.handler = "scan_wifi_networks"], ScanCmd, NoTimeout, f,
              "scan_run")

scan_wifi_networks_run(w) ==
    /\ pc[w] = "scan_run"
    /\ Returns(child[w])
    /\ \E o \in OutputsOf(child[w], ScanOutputs) :
        LET sr == subprocess_run(child[w].fate, o, NoTimeout, TRUE)
        IN  Continue(w, o, Raise(sr.exc), scan_result(sr), child[w].fate, "done")

\* ---------------------------------------------------- GET /wifi/wan (wifi.py)
WanCmd == <<WIFI_MANAGER, "wan">>

\* wifi.py 231-252
detect_wan_result(sr) ==
    IF sr.exc = "CalledProcessError"
    THEN Respond(Json(500, FALSE, <<"Failed to detect WAN interface:">> \o sr.stderr, "absent"))
    ELSE IF sr.exc # "none" THEN Respond(Escaped(sr.exc))
    ELSE IF strip(sr.stdout) # <<>> THEN Respond(Json(200, TRUE, strip(sr.stdout), "absent"))
    ELSE Respond(Json(404, FALSE, <<"No WAN interface detected">>, "absent"))

WanOutputs ==
    {Output(0, <<"eth0", "\n">>, <<>>, TRUE), Output(0, <<"\n">>, <<>>, TRUE),
     Output(1, <<>>, ToolError, TRUE)}

detect_wan(w) ==
    /\ pc[w] = "idle"
    /\ \E f \in HandlerFates :
        Begin(w, [NoReq EXCEPT !.handler = "detect_wan"], WanCmd, NoTimeout, f, "wan_run")

detect_wan_run(w) ==
    /\ pc[w] = "wan_run"
    /\ Returns(child[w])
    /\ \E o \in OutputsOf(child[w], WanOutputs) :
        LET sr == subprocess_run(child[w].fate, o, NoTimeout, TRUE)
        IN  Continue(w, o, Raise(sr.exc), detect_wan_result(sr), child[w].fate, "done")

\* ------------------------------------------------ status probes (app.py)
\* what run_command gives back for a probe whose command prints one of outputs
ProbeCalls(outputs) ==
    {run_command(f, o, DefaultTimeout).ret[1] : f \in HandlerFates, o \in outputs}

\* {'connected': False, 'error': ...}
Disconnected(error) == [connected |-> FALSE, error |-> error]

\* app.py 197-204: Self.PrimaryRoutes of the second read, [] when anything fails
advertised_routes_of(routes_result) ==
    IF ~routes_result.success THEN <<>>
    ELSE LET routes_data == json_loads(routes_result.stdout)
         IN  IF routes_data.raised # "none" THEN <<>>
             ELSE LET d == routes_data.ret[1]
                  IN  IF d.top # "object" \/ d.Self # "object" \/ d.PrimaryRoutes = <<>>
                      THEN <<>>
                      ELSE d.PrimaryRoutes[1]

\* app.py 207-214: Self.ExitNodeOption of the third read, False when anything fails
exit_node_enabled_of(exit_node_result) ==
    IF ~exit_node_result.success THEN "false"
    ELSE LET exit_data == json_loads(exit_node_result.stdout)
         IN  IF exit_data.raised # "none" THEN "false"
             ELSE LET v == get_Self_ExitNodeOption(exit_data.ret[1])
                  IN  IF v.raised # "none" THEN "false" ELSE v.ret[1]

\* status_data.get('Self', {}).get('TailscaleIPs', ['Unknown'])[0]
self_ip_of(d) ==
    IF d.Self = "null" THEN Raise("AttributeError")
    ELSE LET ips == IF d.Self = "absent" \/ d.TailscaleIPs = <<>> THEN <<"Unknown">>
                    ELSE d.TailscaleIPs[1]
         IN  IF ips = <<>> THEN Raise("IndexError") ELSE Return(ips[1])

\* app.py 185-231: the three status reads came back
get_tailscale_status(status_result, routes_result, exit_node_result) ==
    IF ~status_result.success THEN Disconnected(status_result.stderr)
    ELSE LET status_data == json_loads(status_result.stdout)
         IN  IF status_data.raised # "none" THEN Disconnected(str(status_data.raised))
             ELSE LET d == status_data.ret[1]
                      self_ip == self_ip_of(d)
                  IN  IF d.top # "object" THEN Disconnected(str("AttributeError"))
                      ELSE IF self_ip.raised # "none" THEN Disconnected(str(self_ip.raised))
                      ELSE [connected |-> TRUE,
                            self_ip |-> self_ip.ret[1],
                            hostname |-> IF d.Self = "absent" \/ d.HostName = <<>>
                                         THEN "Unknown" ELSE d.HostName[1],
                            exit_node_enabled |-> exit_node_enabled_of(exit_node_result),
                            advertised_routes |-> advertised_routes_of(routes_result),
                            peer_count |-> IF d.Peer = <<>> THEN 0 ELSE Len(d.Peer[1]),
                            peers |-> IF d.Peer = <<>> THEN <<>> ELSE d.Peer[1],
                            backend_state |-> IF d.BackendState = <<>> THEN "Unknown"
                                              ELSE d.BackendState[1]]

\* the status payloads with some of the optional fields missing or empty
StatusPayloads ==
    {"{\"Self\":{\"ExitNodeOption\":true,\"PrimaryRoutes\":[\"10.0.0.0/24\"],\"TailscaleIPs\":[\"100.64.0.1\",\"fd7a::1\"],\"HostName\":\"igel\"},\"BackendState\":\"Running\",\"Peer\":{\"n1\":{},\"n2\":{}}}",
     "{}",
     "{\"Self\":{},\"BackendState\":\"Running\",\"Peer\":{\"n1\":{},\"n2\":{}}}",
     "{\"BackendState\":\"Running\",\"Peer\":{\"n1\":{},\"n2\":{}}}",
     "{\"Self\":{\"PrimaryRoutes\":[\"10.0.0.0/24\"],\"TailscaleIPs\":[\"100.64.0.1\",\"fd7a::1\"],\"HostName\":\"igel\"},\"BackendState\":\"Running\",\"Peer\":{\"n1\":{},\"n2\":{}}}",
     "{\"Self\":{\"ExitNodeOption\":true,\"TailscaleIPs\":[\"100.64.0.1\",\"fd7a::1\"],\"HostName\":\"igel\"},\"BackendState\":\"Running\",\"Peer\":{\"n1\":{},\"n2\":{}}}",
     "{\"Self\":{\"ExitNodeOption\":true,\"PrimaryRoutes\":[],\"TailscaleIPs\":[\"100.64.0.1\",\"fd7a::1\"],\"HostName\":\"igel\"},\"BackendState\":\"Running\",\"Peer\":{\"n1\":{},\"n2\":{}}}",
     "{\"Self\":{\"ExitNodeOption\":true,\"PrimaryRoutes\":[\"10.0.0.0/24\"],\"HostName\":\"igel\"},\"BackendState\":\"Running\",\"Peer\":{\"n1\":{},\"n2\":{}}}",
     "{\"Self\":{\"ExitNodeOption\":true,\"PrimaryRoutes\":[\"10.0.0.0/24\"],\"TailscaleIPs\":[],\"HostName\":\"igel\"},\"BackendState\":\"Running\",\"Peer\":{\"n1\":{},\"n2\":{}}}",
     "{\"Self\":{\"ExitNodeOption\":true,\"PrimaryRoutes\":[\"10.0.0.0/24\"],\"TailscaleIPs\":[\"100.64.0.1\",\"fd7a::1\"]},\"BackendState\":\"Running\",\"Peer\":{\"n1\":{},\"n2\":{}}}",
     "{\"Self\":{\"ExitNodeOption\":true,\"PrimaryRoutes\":[\"10.0.0.0/24\"],\"TailscaleIPs\":[\"100.64.0.1\",\"fd7a::1\"],\"HostName\":\"igel\"},\"Peer\":{\"n1\":{},\"n2\":{}}}",
     "{\"Self\":{\"ExitNodeOption\":true,\"PrimaryRoutes\":[\"10.0.0.0/24\"],\"TailscaleIPs\":[\"100.64.0.1\",\"fd7a::1\"],\"HostName\":\"igel\"},\"BackendState\":\"Running\"}",
     "{\"Self\":{\"ExitNodeOption\":true,\"PrimaryRoutes\":[\"10.0.0.0/24\"],\"TailscaleIPs\":[\"100.64.0.1\",\"fd7a::1\"],\"HostName\":\"igel\"},\"BackendState\":\"Running\",\"Peer\":{}}"}

\* what one status read of the dashboard can print
ReadOutputs ==
    {Output(0, <<d, "\n">>, <<>>, TRUE) : d \in StatusPayloads \cup {"{\"Self\":null}", "[]", "Warning:"}}
    \cup {Output(1, <<>>, ToolError, TRUE)}

\* a later read of the same request: the same as the first, or a failure
RereadCalls(first) ==
    {first} \cup ProbeCalls({Output(1, <<>>, ToolError, TRUE),
                             Output(0, <<"Warning:", "\n">>, <<>>, TRUE)})

\* the probes of a request that reads status: nothing is kept of the request
\* but what it read and what it answered
Probed(w, handler, cmds, results, view) ==
    /\ Accept(w, [NoReq EXCEPT !.handler = handler])
    /\ pc' = [pc EXCEPT ![w] = "done"]
    /\ hist' = [hist EXCEPT ![w].cmds = cmds, ![w].results = results]
    /\ resp' = [resp EXCEPT ![w] = <<view>>]
    /\ UNCHANGED <<child, loc, exit_node, config_changes, procs>>

Read(cmd, call) == [cmd |-> cmd, out |-> call.stdout, success |-> call.success]

\* the status reads the function makes: one when the first fails or prints no
\* JSON, three otherwise
status_reads(c1, c2, c3) ==
    IF ~c1.success \/ json_loads(c1.stdout).raised # "none" THEN <<c1>> ELSE <<c1, c2, c3>>

\* GET /api/tailscale/status
api_tailscale_status(w) ==
    /\ pc[w] = "idle"
    /\ \E c1 \in ProbeCalls(ReadOutputs) :
       \E c2 \in RereadCalls(c1), c3 \in RereadCalls(c1) :
        LET reads == status_reads(c1, c2, c3)
        IN  Probed(w, "api_tailscale_status",
                   [i \in 1..Len(reads) |-> StatusCmd],
                   [i \in 1..Len(reads) |-> Read(StatusCmd, reads[i])],
                   get_tailscale_status(c1, c2, c3))

\* ---------------------------------------------------------- get_system_info
\* the psutil reads of app.py 148-157, in the order they are made
Metrics == <<"cpu_percent", "memory", "disk", "network", "uptime">>

TempCmd == <<"cat", "/sys/class/thermal/thermal_zone0/temp">>

\* app.py 160-166: None (<<>>) unless the read succeeds and prints an integer
temperature_of(temp_result) ==
    IF ~temp_result.success THEN <<>>
    ELSE LET millis == py_int(temp_result.stdout)
         IN  IF millis.raised # "none" THEN <<>> ELSE <<millis.ret[1] \div 1000>>

\* app.py 144-183.  metrics[i] is <<value>> when the i-th psutil read gives a
\* value and <<>> when it raises; the result maps every key to <<value>>, or
\* holds no key at all ({}): then every key maps to <<>>
get_system_info(metrics, temp_result) ==
    IF \E i \in 1..Len(Metrics) : metrics[i] = <<>>
    THEN [k \in {Metrics[i] : i \in 1..Len(Metrics)} \cup {"temperature"} |-> <<>>]
    ELSE [k \in {Metrics[i] : i \in 1..Len(Metrics)} \cup {"temperature"} |->
            IF k = "temperature" THEN <<temperature_of(temp_result)>>
            ELSE metrics[CHOOSE i \in 1..Len(Metrics) : Metrics[i] = k]]

\* each psutil read gives its value or raises; at most one raises here
MetricReads ==
    {[i \in 1..Len(Metrics) |-> IF i = bad THEN <<>> ELSE <<"live">>] :
        bad \in 0..Len(Metrics)}

TempOutputs ==
    {Output(0, <<"42000", "\n">>, <<>>, TRUE), Output(0, <<"n/a", "\n">>, <<>>, TRUE),
     Output(1, <<>>, ToolError, TRUE)}

\* GET /api/system/status; the reads after one that raises are not made
api_system_status(w) ==
    /\ pc[w] = "idle"
    /\ \E metrics \in MetricReads, temp \in ProbeCalls(TempOutputs) :
        LET ran == \A i \in 1..Len(Metrics) : metrics[i] # <<>>
        IN  Probed(w, "api_system_status",
                   IF ran THEN <<TempCmd>> ELSE <<>>,
                   SelectSeq([i \in 1..Len(Metrics) |->
                                 [cmd |-> <<"psutil", Metrics[i]>>, out |-> metrics[i],
                                  success |-> metrics[i] # <<>>,
                                  made |-> \A j \in 1..(i - 1) : metrics[j] # <<>>]],
                             LAMBDA r : r.made)
                     \o (IF ran THEN <<Read(TempCmd, temp)>> ELSE <<>>),
                   get_system_info(metrics, temp))

\* ------------------------------------------------------ get_headscale_status
ActiveCmd == <<"systemctl", "is-active", "headscale">>
NodesCmd == <<"headscale", "nodes", "list", "--output", "json">>
NamespacesCmd == <<"headscale", "namespaces", "list", "--output", "json">>

\* the JSON lists a headscale listing is modelled to print, as the names in them
ListDocs == "[]" :> <<>> @@ "[{\"id\":1,\"name\":\"n1\"}]" :> <<"n1">>

\* app.py 241-246, 250-255: the parsed list, [] when the listing fails or is
\* no JSON
listing_of(result) ==
    IF ~result.success THEN <<>>
    ELSE LET t == strip(result.stdout)
         IN  IF Len(t) = 1 /\ t[1] \in DOMAIN ListDocs THEN ListDocs[t[1]] ELSE <<>>

\* app.py 233-272
get_headscale_status(service_result, nodes_result, namespaces_result) ==
    IF service_result.success /\ service_result.stdout = <<"active">>
    THEN [installed |-> TRUE, running |-> TRUE, nodes |-> listing_of(nodes_result),
          namespaces |-> listing_of(namespaces_result),
          node_count |-> Len(listing_of(nodes_result))]
    ELSE [installed |-> TRUE, running |-> FALSE, error |-> service_result.stderr]

ActiveOutputs ==
    {Output(0, <<"active", "\n">>, <<>>, TRUE), Output(3, <<"inactive", "\n">>, <<>>, TRUE)}

ListOutputs ==
    {Output(0, <<"[{\"id\":1,\"name\":\"n1\"}]", "\n">>, <<>>, TRUE),
     Output(0, <<"[]", "\n">>, <<>>, TRUE),
     Output(0, <<"Warning:", "\n">>, <<>>, TRUE),
     Output(1, <<>>, ToolError, TRUE)}

\* GET /api/headscale/status
api_headscale_status(w) ==
    /\ pc[w] = "idle"
    /\ \E s \in ProbeCalls(ActiveOutputs), n \in ProbeCalls(ListOutputs),
          ns \in ProbeCalls(ListOutputs) :
        LET running == s.success /\ s.stdout = <<"active">>
        IN  Probed(w, "api_headscale_status",
                   IF running THEN <<ActiveCmd, NodesCmd, NamespacesCmd>> ELSE <<ActiveCmd>>,
                   IF running
                   THEN <<Read(ActiveCmd, s), Read(NodesCmd, n), Read(NamespacesCmd, ns)>>
                   ELSE <<Read(ActiveCmd, s)>>,
                   get_headscale_status(s, n, ns))

Next ==
    \/ toggle_exit_node(Caller)
    \/ toggle_exit_node_status(Caller)
    \/ toggle_exit_node_set(Caller)
    \/ manage_routes(Caller, BasicEntries)
    \/ manage_routes_set(Caller)
    \/ rotate_machine_key(Caller)
    \/ rotate_machine_key_logout(Caller)
    \/ generate_preauth_key(Caller)
    \/ generate_preauth_key_create(Caller)
    \/ manage_namespaces(Caller)
    \/ manage_namespaces_create(Caller)
    \/ restart_service(Caller)
    \/ restart_service_run(Caller)
    \/ get_service_logs(Caller)
    \/ get_service_logs_run(Caller)
    \/ connect_to_wifi(Caller)
    \/ connect_to_wifi_run(Caller)
    \/ start_ap(Caller)
    \/ start_ap_run(Caller)
    \/ stop_ap(Caller)
    \/ stop_ap_run(Caller)
    \/ setup_gateway(Caller)
    \/ setup_gateway_run(Caller)
    \/ Reset(Caller)

Spec == Init /\ [][Next]_vars

\* route updates alone, over the full pool of entries
NextRoutes ==
    \/ manage_routes(Caller, RouteEntries)
    \/ manage_routes_set(Caller)
    \/ Reset(Caller)

SpecRoutes == Init /\ [][NextRoutes]_vars

\* the read-only handlers of wifi.py
NextWifi ==
    \/ scan_wifi_networks(Caller)
    \/ scan_wifi_networks_run(Caller)
    \/ detect_wan(Caller)
    \/ detect_wan_run(Caller)
    \/ Reset(Caller)

SpecWifi == Init /\ [][NextWifi]_vars

\* the status probes of app.py
NextStatus ==
    \/ api_system_status(Caller)
    \/ api_tailscale_status(Caller)
    \/ api_headscale_status(Caller)
    \/ Reset(Caller)

SpecStatus == Init /\ [][NextStatus]_vars

\* toggle requests served by all the workers at once: the steps of different
\* requests interleave, the daemon's state is shared
NextRace ==
    \E w \in Workers :
        \/ toggle_exit_node(w)
        \/ toggle_exit_node_status(w)
        \/ toggle_exit_node_set(w)
        \/ Reset(w)

SpecRace == Init /\ [][NextRace]_vars

\* ========================================================= claims, SpecRun
RunDone(w) == pc[w] = "run_command_done"

ResultFields == {"success", "stdout", "stderr", "returncode"}

\* the command was launched, ran to its exit within the timeout, and its
\* output was read: subprocess.run returned normally
NormalExit(w) == loc[w].launched /\ ~loc[w].overran /\ loc[w].output.decodes

\* C1: run_command never raises: whatever the launch of the command came to
\* (exit with any code, timeout, launch failure, any other exception), the
\* caller gets a record with the fields success, stdout, stderr and
\* returncode, and every failure is encoded in it as success = FALSE (with
\* returncode -1 and a non-empty stderr when there is no exit code to report).
C1_NeverRaises ==
    \A w \in Workers : RunDone(w) =>
        /\ loc[w].call.raised = "none"
        /\ Len(loc[w].call.ret) = 1
        /\ DOMAIN loc[w].call.ret[1] = ResultFields
        /\ (~NormalExit(w) \/ loc[w].output.code # 0) => ~loc[w].call.ret[1].success
        /\ ~NormalExit(w) =>
              /\ loc[w].call.ret[1].returncode = -1
              /\ loc[w].call.ret[1].stderr # <<>>

C1_Witness ==
    \E w \in Workers :
        /\ RunDone(w)
        /\ ~loc[w].launched
        /\ loc[w].call.raised = "none"
        /\ loc[w].call.ret[1].stderr = <<"OSError">>

\* C2: a command that runs longer than the timeout T of the call makes
\* run_command return (subprocess.run gives control back), and what it returns
\* is success = FALSE, returncode -1, stderr "Command timed out", stdout empty.
C2_TimeoutResult ==
    \A w \in Workers :
        /\ (pc[w] = "run_command_wait" /\ RunsLonger(child[w].fate, req[w].timeout))
              => Returns(child[w])
        /\ (RunDone(w) /\ loc[w].overran) =>
              /\ loc[w].call.raised = "none"
              /\ loc[w].call.ret =
                    <<[success |-> FALSE, stdout |-> <<>>,
                       stderr |-> <<"Command timed out">>, returncode |-> -1]>>

C2_Witness ==
    \E w \in Workers :
        /\ RunDone(w)
        /\ loc[w].overran
        /\ req[w].timeout = MaxTimeout
        /\ loc[w].call.ret[1].stderr = <<"Command timed out">>

\* C3: when run_command has returned after a timeout, no process that the
\* command started is alive any more.
C3_NoProcessLeft ==
    \A w \in Workers :
        (RunDone(w) /\ loc[w].overran) =>
            ~\E p \in procs : p.request = req[w].id

\* t is raw without the whitespace around it: raw is blanks, then t, then
\* blanks, and t neither starts nor ends with a blank
IsTrimOf(t, raw) ==
    /\ \E i \in 0..Len(raw) :
          /\ i + Len(t) <= Len(raw)
          /\ t = SubSeq(raw, i + 1, i + Len(t))
          /\ \A k \in 1..Len(raw) : (k <= i \/ k > i + Len(t)) => raw[k] \in Whitespace
    /\ t # <<>> => (t[1] \notin Whitespace /\ t[Len(t)] \notin Whitespace)

\* C4: on a normal exit of the command, success is TRUE exactly when the exit
\* code is 0, returncode is the exit code of the process, and stdout and
\* stderr are what the process wrote without the whitespace around it.
C4_NormalExit ==
    \A w \in Workers : (RunDone(w) /\ NormalExit(w)) =>
        /\ loc[w].call.raised = "none"
        /\ loc[w].call.ret[1].success = (loc[w].output.code = 0)
        /\ loc[w].call.ret[1].returncode = loc[w].output.code
        /\ IsTrimOf(loc[w].call.ret[1].stdout, loc[w].output.out)
        /\ IsTrimOf(loc[w].call.ret[1].stderr, loc[w].output.err)

C4_Witness ==
    \E w \in Workers :
        /\ RunDone(w) /\ NormalExit(w)
        /\ loc[w].output.code = 1
        /\ loc[w].output.out = <<"\n", "x", " ">>
        /\ loc[w].call.ret[1].stdout = <<"x">>
        /\ ~loc[w].call.ret[1].success

\* ============================================================ claims, Spec
Finished(w, h) == pc[w] = "done" /\ req[w].handler = h

\* C5: a route update with an entry, at whatever position of the list, that is
\* no IPv4 or IPv6 network is answered 400 at once: it launches no command
\* (no tailscale set --advertise-routes) and makes no audit entry.
C5_BatchValidation ==
    \A w \in Workers :
        (/\ req[w].handler = "manage_routes"
         /\ \E i \in 1..Len(req[w].routes) : ip_network(req[w].routes[i]).raised # "none")
        => /\ pc[w] = "done"
           /\ resp[w][1].status = 400 /\ ~resp[w][1].success
           /\ hist[w].cmds = <<>> /\ ~child[w].running
           /\ hist[w].logs = <<>> /\ hist[w].written = 0

C5_Witness ==
    \E w \in Workers :
        /\ Finished(w, "manage_routes")
        /\ Len(req[w].routes) = 2
        /\ req[w].routes[1].text = "10.0.0.0/24"
        /\ req[w].routes[2].text = "not-a-cidr"
        /\ resp[w][1].status = 400
        /\ hist[w].cmds = <<>>

MutatingHandlers ==
    {"toggle_exit_node", "manage_routes", "rotate_machine_key", "generate_preauth_key",
     "manage_namespaces", "restart_service"} \cup WifiHandlers

\* C7: when a mutating handler has answered, every command it ran that changes
\* something (every command but the status read) has an audit call of the
\* handler recording its outcome, success or failure.
C7_EveryOutcomeAudited ==
    \A w \in Workers :
        (pc[w] = "done" /\ req[w].handler \in MutatingHandlers) =>
            \A i \in 1..Len(hist[w].results) :
                hist[w].results[i].cmd # StatusCmd =>
                    \E j \in 1..Len(hist[w].logs) :
                        hist[w].logs[j].success = hist[w].results[i].success

\* C8: when the audit store refuses the insert, log_action raises nothing, and
\* the handler's answer is the one the outcome of its command calls for:
\* success and 200 when the command succeeded, failure and 500 when it failed.
C8_AuditFailureSwallowed ==
    \A w \in Workers :
        (pc[w] = "done" /\ hist[w].log_failed) =>
            LET last == hist[w].results[Len(hist[w].results)]
            IN  /\ hist[w].log_raised = "none"
                /\ resp[w][1].escaped = "none"
                /\ resp[w][1].success = last.success
                /\ resp[w][1].status = IF last.success THEN 200 ELSE 500

C8_Witness ==
    \E w \in Workers :
        /\ Finished(w, "toggle_exit_node")
        /\ hist[w].log_failed /\ hist[w].written = 0
        /\ resp[w][1].success /\ resp[w][1].status = 200

\* the status read succeeded with a document whose Self.ExitNodeOption is
\* false or missing, and the command run after it succeeded
EnableCase(w) ==
    /\ Finished(w, "toggle_exit_node")
    /\ Len(hist[w].results) = 2
    /\ hist[w].results[1].success /\ hist[w].results[2].success
    /\ \E d \in DOMAIN JsonDocs :
          /\ strip(hist[w].results[1].out) = <<d>>
          /\ JsonDocs[d].top = "object"
          /\ JsonDocs[d].Self \in {"object", "absent"}
          /\ JsonDocs[d].ExitNodeOption \in {"false", "absent"}

EnableRow == Row("dashboard", "enable_exit_node", <<"Exit node enabled">>, TRUE)

EnableAnswer(w) ==
    /\ hist[w].cmds = <<StatusCmd, EnableCmd>>
    /\ resp[w][1].status = 200 /\ resp[w][1].success
    /\ resp[w][1].exit_node_enabled = "true"
    /\ hist[w].logs = <<EnableRow>>

\* C9 as stated: in the enable case the handler runs one mutating command, the
\* enable command, answers success with exit_node_enabled = true, and writes
\* exactly one audit entry, enable_exit_node with success = TRUE.
C9_EnableWritesOneEntry ==
    \A w \in Workers : EnableCase(w) => (EnableAnswer(w) /\ hist[w].written = 1)

\* C9 amended: in the enable case the handler runs one mutating command, the
\* enable command, answers success with exit_node_enabled = true, and makes
\* exactly one audit call, enable_exit_node with success = TRUE; the call
\* writes exactly one entry, the last of the table, unless the audit store
\* refuses the insert, and then none.
C9_EnableOneAuditCall ==
    \A w \in Workers : EnableCase(w) =>
        /\ EnableAnswer(w)
        /\ IF hist[w].log_failed THEN hist[w].written = 0
           ELSE /\ hist[w].written = 1
                /\ config_changes # <<>>
                /\ config_changes[Len(config_changes)] = EnableRow

C9_Witness ==
    \E w \in Workers :
        /\ EnableCase(w)
        /\ hist[w].results[1].out =
              <<"{\"Self\":{\"ExitNodeOption\":false},\"BackendState\":\"Running\"}", "\n">>
        /\ hist[w].written = 1
        /\ config_changes = <<EnableRow>>
        /\ exit_node

\* C10: when the status read of a toggle fails, the handler answers 500 with
\* success = FALSE, has launched nothing but the status read, and has made no
\* audit call.
C10_StatusReadFails ==
    \A w \in Workers :
        (/\ req[w].handler = "toggle_exit_node"
         /\ hist[w].results # <<>>
         /\ ~hist[w].results[1].success)
        => /\ pc[w] = "done"
           /\ resp[w][1].status = 500 /\ ~resp[w][1].success
           /\ hist[w].cmds = <<StatusCmd>>
           /\ hist[w].logs = <<>> /\ hist[w].written = 0

C10_Witness ==
    \E w \in Workers :
        /\ Finished(w, "toggle_exit_node")
        /\ ~hist[w].results[1].success
        /\ hist[w].results[1].out # <<>>
        /\ resp[w][1].message = <<"Failed to get Tailscale status">>

\* the set command of a toggle comes back in this step: the machine offers no
\* exit node, the command is the enable command, and it failed
EnableFails(w) ==
    /\ pc[w] = "toggle_set" /\ pc'[w] = "done"
    /\ ~exit_node
    /\ child[w].cmd = EnableCmd
    /\ ~hist'[w].results[2].success

FailedEnableRow(w) ==
    Row("dashboard", "enable_exit_node", <<"Failed:">> \o loc'[w].call.ret[1].stderr, FALSE)

\* the answer is a failure that carries the stderr run_command reported, which
\* is the tool's own stderr when the tool ran to its exit
FailedEnableAnswer(w) ==
    /\ exit_node' = FALSE
    /\ resp'[w][1].status = 500 /\ ~resp'[w][1].success
    /\ resp'[w][1].message = <<"Failed to toggle exit node:">> \o loc'[w].call.ret[1].stderr
    /\ (loc[w].launched /\ ~loc[w].overran)
          => loc'[w].call.ret[1].stderr = strip(loc'[w].output.err)

\* C11 as stated: every toggle attempt made while the exit node is disabled
\* and whose enable command fails leaves the state disabled, answers a failure
\* carrying the stderr, and appends exactly one audit entry with success =
\* FALSE; n attempts so append n entries.
C11_FailedEnableWritesEntry ==
    [][\A w \in Workers : EnableFails(w) =>
            /\ FailedEnableAnswer(w)
            /\ config_changes' = Append(config_changes, FailedEnableRow(w))]_vars

\* C11 amended: every such attempt leaves the state disabled, answers a failure
\* carrying the stderr, and makes exactly one audit call with success = FALSE;
\* the call appends exactly one entry, unless the audit store refuses the
\* insert, and then the table is unchanged.
C11_FailedEnableOneAuditCall ==
    [][\A w \in Workers : EnableFails(w) =>
            /\ FailedEnableAnswer(w)
            /\ hist'[w].logs = <<FailedEnableRow(w)>>
            /\ IF hist'[w].log_failed THEN config_changes' = config_changes
               ELSE config_changes' = Append(config_changes, FailedEnableRow(w))]_vars

\* two attempts failed one after the other, each with its entry
C11_Witness ==
    \E w \in Workers :
        /\ Finished(w, "toggle_exit_node")
        /\ hist[w].cmds = <<StatusCmd, EnableCmd>>
        /\ ~hist[w].results[2].success
        /\ ~exit_node
        /\ Len(config_changes) = 2
        /\ \A i \in 1..2 :
              config_changes[i] =
                  Row("dashboard", "enable_exit_node", <<"Failed:">> \o strip(ToolError), FALSE)
        /\ resp[w][1].message = <<"Failed to toggle exit node:">> \o strip(ToolError)

\* ======================================================== claims, SpecWifi
\* the scan script ran to its exit with code 0, and these are its lines
ScanRead(w) ==
    /\ Finished(w, "scan_wifi_networks")
    /\ hist[w].results[1].success

ScanLinesOf(w) == splitlines(loc[w].output.out)

Fields(line) == split(line, ":")

BadSignal(line) == Len(Fields(line)) >= 3 /\ py_int(Fields(line)[2]).raised # "none"

WellFormed(line) == Len(Fields(line)) >= 3 /\ py_int(Fields(line)[2]).raised = "none"

\* the entries of the well-formed lines, in the order of the lines
WellFormedEntries(lines) ==
    LET good == SelectSeq(lines, WellFormed)
    IN  [k \in 1..Len(good) |->
            Network(Fields(good[k])[1], py_int(Fields(good[k])[2]).ret[1], Fields(good[k])[3])]

Count(e, list) == Cardinality({k \in 1..Len(list) : list[k] = e})

SameEntries(a, b) ==
    /\ Len(a) = Len(b)
    /\ \A k \in 1..Len(a) : Count(a[k], a) = Count(a[k], b)

Descending(list) ==
    \A k \in 1..(Len(list) - 1) : list[k].signal >= list[k + 1].signal

\* C12: a scan output with a line whose signal is no integer is still
\* answered with success and with the entries of all the well-formed lines.
C12_BadSignalSkipped ==
    \A w \in Workers :
        (ScanRead(w) /\ \E k \in 1..Len(ScanLinesOf(w)) : BadSignal(ScanLinesOf(w)[k]))
        => /\ resp[w][1].escaped = "none"
           /\ resp[w][1].status = 200 /\ resp[w][1].success
           /\ SameEntries(resp[w][1].networks, WellFormedEntries(ScanLinesOf(w)))

\* C13: for every scan output, the answer lists exactly one entry (ssid,
\* signal, security: the first three fields) for every line with at least 3
\* fields and an integer signal, nothing for a line with fewer fields, and
\* the list is in descending order of signal.
C13_ScanParsed ==
    \A w \in Workers :
        ScanRead(w)
        => /\ resp[w][1].escaped = "none"
           /\ resp[w][1].status = 200 /\ resp[w][1].success
           /\ SameEntries(resp[w][1].networks, WellFormedEntries(ScanLinesOf(w)))
           /\ Descending(resp[w][1].networks)

\* the same for the scan outputs in which every line with at least 3 fields
\* has an integer signal: there the parse is as C13 says
ScanParsedWithoutBadSignal ==
    \A w \in Workers :
        (ScanRead(w) /\ \A k \in 1..Len(ScanLinesOf(w)) : ~BadSignal(ScanLinesOf(w)[k]))
        => /\ resp[w][1].escaped = "none"
           /\ resp[w][1].status = 200 /\ resp[w][1].success
           /\ SameEntries(resp[w][1].networks, WellFormedEntries(ScanLinesOf(w)))
           /\ Descending(resp[w][1].networks)

\* ====================================================== claims, SpecStatus
\* the three status reads of the request printed the payload d
ParsedPayload(w, d) ==
    /\ Finished(w, "api_tailscale_status")
    /\ Len(hist[w].results) = 3
    /\ \A i \in 1..3 : hist[w].results[i].success /\ hist[w].results[i].out = <<d>>

\* C14: a status payload in which any of Self, Self.ExitNodeOption,
\* Self.PrimaryRoutes, Self.TailscaleIPs, Self.HostName, BackendState and Peer
\* is missing or empty is parsed without failure: connected is TRUE, the
\* missing fields have their defaults (exit_node_enabled false,
\* advertised_routes [], backend_state "Unknown", peer_count 0) and the fields
\* that are there have their values.
C14_OptionalFieldsDefault ==
    \A w \in Workers : \A d \in StatusPayloads :
        ParsedPayload(w, d) =>
            LET doc == JsonDocs[d]
                view == resp[w][1]
            IN  /\ view.connected
                /\ view.exit_node_enabled =
                      (IF doc.ExitNodeOption = "absent" THEN "false" ELSE doc.ExitNodeOption)
                /\ view.advertised_routes =
                      (IF doc.PrimaryRoutes = <<>> THEN <<>> ELSE doc.PrimaryRoutes[1])
                /\ view.backend_state =
                      (IF doc.BackendState = <<>> THEN "Unknown" ELSE doc.BackendState[1])
                /\ view.peer_count = (IF doc.Peer = <<>> THEN 0 ELSE Len(doc.Peer[1]))
                /\ view.hostname = (IF doc.HostName = <<>> THEN "Unknown" ELSE doc.HostName[1])

\* the same for the payloads whose Self.TailscaleIPs is not the empty list:
\* there the parse is as C14 says
OptionalFieldsDefaultButEmptyIPs ==
    \A w \in Workers : \A d \in StatusPayloads :
        (ParsedPayload(w, d) /\ JsonDocs[d].TailscaleIPs # << <<>> >>) =>
            LET doc == JsonDocs[d]
                view == resp[w][1]
            IN  /\ view.connected
                /\ view.exit_node_enabled =
                      (IF doc.ExitNodeOption = "absent" THEN "false" ELSE doc.ExitNodeOption)
                /\ view.advertised_routes =
                      (IF doc.PrimaryRoutes = <<>> THEN <<>> ELSE doc.PrimaryRoutes[1])
                /\ view.backend_state =
                      (IF doc.BackendState = <<>> THEN "Unknown" ELSE doc.BackendState[1])
                /\ view.peer_count = (IF doc.Peer = <<>> THEN 0 ELSE Len(doc.Peer[1]))
                /\ view.hostname = (IF doc.HostName = <<>> THEN "Unknown" ELSE doc.HostName[1])

\* the probe behind result i of the request gave its value
ProbeOk(w, i) == i <= Len(hist[w].results) /\ hist[w].results[i].success

FullPayload ==
    CHOOSE d \in StatusPayloads :
        LET doc == JsonDocs[d]
        IN  /\ doc.Self = "object" /\ doc.ExitNodeOption = "true"
            /\ doc.PrimaryRoutes \notin {<<>>, << <<>> >>}
            /\ doc.TailscaleIPs \notin {<<>>, << <<>> >>}
            /\ doc.HostName # <<>> /\ doc.BackendState # <<>>
            /\ doc.Peer \notin {<<>>, << <<>> >>}

\* C15: in the answer of a status request every field whose own probe gave a
\* value has that value, whatever became of the other probes: the system
\* metrics and the temperature, the fields of the three VPN status reads, the
\* two headscale listings.
C15_ProbesIndependent ==
    \A w \in Workers :
        /\ Finished(w, "api_system_status") =>
              /\ \A i \in 1..Len(Metrics) :
                    ProbeOk(w, i) => resp[w][1][Metrics[i]] = hist[w].results[i].out
              /\ (ProbeOk(w, Len(Metrics) + 1)
                     /\ hist[w].results[Len(Metrics) + 1].out = <<"42000">>)
                    => resp[w][1]["temperature"] = << <<42>> >>
        /\ (Finished(w, "api_tailscale_status") /\ ProbeOk(w, 1)
                /\ hist[w].results[1].out = <<FullPayload>>) =>
              /\ resp[w][1].connected
              /\ resp[w][1].hostname = JsonDocs[FullPayload].HostName[1]
              /\ resp[w][1].backend_state = JsonDocs[FullPayload].BackendState[1]
              /\ resp[w][1].peer_count = Len(JsonDocs[FullPayload].Peer[1])
              /\ (ProbeOk(w, 2) /\ hist[w].results[2].out = <<FullPayload>>)
                    => resp[w][1].advertised_routes = JsonDocs[FullPayload].PrimaryRoutes[1]
              /\ (ProbeOk(w, 3) /\ hist[w].results[3].out = <<FullPayload>>)
                    => resp[w][1].exit_node_enabled = "true"
        /\ (Finished(w, "api_headscale_status") /\ Len(hist[w].results) = 3) =>
              /\ resp[w][1].running
              /\ \A i \in 2..3 :
                    (ProbeOk(w, i) /\ strip(hist[w].results[i].out) = <<"[{\"id\":1,\"name\":\"n1\"}]">>)
                    => (IF i = 2 THEN resp[w][1].nodes ELSE resp[w][1].namespaces) = <<"n1">>

\* ============================================== claims about every handler
Waiting(w) == pc[w] \notin {"idle", "done", "run_command_done"}

\* C16: a handler that waits for an external command gets control back: the
\* child process exits on its own or a timeout ends the wait, so the handler
\* goes on to its response even when the tool never exits.
C16_EveryInvocationEnds ==
    \A w \in Workers :
        Waiting(w) =>
            /\ child[w].running
            /\ (child[w].fate.fault = "none" /\ child[w].fate.hangs)
                  => child[w].timeout # NoTimeout
            /\ Returns(child[w])

\* the external tool of the request failed: its last command did not exit
\* with code 0 (non-zero exit, failed launch, no exit at all)
ToolFailed(w) ==
    /\ pc[w] = "done"
    /\ hist[w].results # <<>>
    /\ ~hist[w].results[Len(hist[w].results)].success

\* C17: no exception leaves a handler, whatever the external tool did
\* (non-zero exit, failed launch, malformed output), and when the tool fails
\* the answer is the failure envelope: success FALSE with status 400, 404 or
\* 500.
C17_FailuresIsolated ==
    \A w \in Workers :
        /\ pc[w] = "done" => resp[w][1].escaped = "none"
        /\ ToolFailed(w) => (~resp[w][1].success /\ resp[w][1].status \in {400, 404, 500})

\* the request has no JSON body, or its body lacks a required field
LacksField(r) ==
    \/ /\ r.handler \in {"manage_routes", "manage_namespaces", "restart_service"}
                          \cup WifiHandlers
       /\ r.body = "none"
    \/ r.handler = "manage_routes" /\ r.routes = <<>>
    \/ r.handler = "manage_namespaces" /\ r.namespace = ""
    \/ r.handler = "restart_service" /\ r.service = ""
    \/ r.handler \in WifiHandlers /\ ~r.complete

\* C18: a request without a required field, or without a JSON body, is
\* answered 400 at once and runs no command.
C18_MissingFieldRejected ==
    \A w \in Workers :
        LacksField(req[w]) =>
            /\ pc[w] = "done"
            /\ resp[w][1].status = 400 /\ ~resp[w][1].success
            /\ hist[w].cmds = <<>> /\ ~child[w].running

IsPrefix(a, b) == Len(a) <= Len(b) /\ a = SubSeq(b, 1, Len(a))

\* C19: the audit table only grows at its end: in every step the entries that
\* were there are still there, unchanged and in place, and the table differs
\* from what it was by at most the entries appended.
C19_AppendOnly ==
    [][IsPrefix(config_changes, config_changes')]_vars

\* two requests have each appended their entry
C19_Witness ==
    /\ Len(config_changes) = 2
    /\ config_changes[1].action = "update_routes"
    /\ config_changes[2].action = "enable_exit_node"
    /\ \E w \in Workers : Finished(w, "toggle_exit_node") /\ hist[w].written = 1

\* C20: after a toggle that answered success, the tool's exit-node
\* advertisement is what the answer says: off after a disable (the command
\* issued clears the advertisement), on after an enable; so a second
\* successful toggle brings back the first state.
C20_ToggleMatchesTool ==
    \A w \in Workers :
        (Finished(w, "toggle_exit_node") /\ resp[w][1].success) =>
            /\ hist[w].cmds[2] = (IF resp[w][1].exit_node_enabled = "true"
                                  THEN EnableCmd ELSE DisableCmd)
            /\ exit_node = (resp[w][1].exit_node_enabled = "true")

\* the handlers of routes.py that call log_action
AuditHandlers ==
    {"toggle_exit_node", "manage_routes", "rotate_machine_key", "generate_preauth_key",
     "manage_namespaces", "restart_service"}

\* the request of worker w has issued a command that changes something
IssuedMutation(w) == \E i \in 1..Len(hist[w].cmds) : hist[w].cmds[i] # StatusCmd

\* what the request of worker w has in the audit log: at most one call and at
\* most one row; a call only when every command issued has returned and the
\* last one changes something, and with that command's success flag
AuditedOnce(w) ==
    LET h == hist[w]
    IN  /\ Len(h.logs) <= 1
        /\ h.written <= Len(h.logs)
        /\ h.logs # <<>> =>
              /\ IssuedMutation(w)
              /\ ~child[w].running
              /\ Len(h.results) = Len(h.cmds)
              /\ h.results[Len(h.results)].cmd # StatusCmd
              /\ h.logs[1].success = h.results[Len(h.results)].success
        /\ ~IssuedMutation(w) => h.logs = <<>> /\ h.written = 0

\* this step writes to the audit log: the table changes, or a request has one
\* more audit call
AuditStep ==
    \/ config_changes' # config_changes
    \/ \E w \in Workers : Len(hist'[w].logs) > Len(hist[w].logs)

\* in this step the command that worker w waits for, one that changes
\* something, returns, and the request is answered
AnswersMutation(w) ==
    /\ req[w].handler \in AuditHandlers
    /\ child[w].running /\ child[w].cmd # StatusCmd /\ Returns(child[w])
    /\ resp[w] = NoResp /\ pc[w] # "done"
    /\ ~child'[w].running
    /\ resp'[w] # NoResp /\ pc'[w] = "done"
    /\ Len(hist'[w].results) = Len(hist[w].results) + 1

\* C22: a request to a handler of routes.py that writes audit entries writes
\* at most one; the entry is written in the step in which the handler's
\* mutating command has returned and the request is answered, not before the
\* command returns and not after the response; its success flag is that of
\* the command; a request that issues no mutating command writes none.
C22_OneEntryAfterTheCommand ==
    [][/\ \A w \in Workers : req'[w].handler \in AuditHandlers => AuditedOnce(w)'
       /\ Len(config_changes') <= Len(config_changes) + 1
       /\ AuditStep => \E w \in Workers :
                          /\ AnswersMutation(w)
                          /\ Len(hist'[w].logs) = 1
                          /\ \A v \in Workers \ {w} : hist'[v].logs = hist[v].logs]_vars

\* a route update that failed left its entry with success FALSE, then a
\* restart that succeeded was answered with its one entry
C22_Witness ==
    \E w \in Workers :
        /\ Finished(w, "restart_service")
        /\ Len(hist[w].logs) = 1 /\ hist[w].written = 1
        /\ hist[w].logs[1].success /\ hist[w].results[1].success
        /\ Len(config_changes) = 2
        /\ ~config_changes[1].success /\ config_changes[1].action = "update_routes"

\* ------------------------------------------------------ claims of SpecRace
\* two finished toggles whose reads both came before either write: w read
\* while v was between its read and its write, and both issued their command
RacingToggles(w, v) ==
    /\ w # v
    /\ Finished(w, "toggle_exit_node") /\ Finished(v, "toggle_exit_node")
    /\ loc[w].raced
    /\ Len(hist[w].results) = 2 /\ Len(hist[v].results) = 2

\* the status read of worker w succeeded and reported the daemon's state x
ReadState(w, x) ==
    /\ hist[w].results[1].success
    /\ hist[w].results[1].out = <<JsonOf(x), "\n">>

\* both racing toggles read the state x and the tool carried out both commands
BothWrote(w, v, x) ==
    /\ RacingToggles(w, v)
    /\ ReadState(w, x) /\ ReadState(v, x)
    /\ hist[w].results[2].success /\ hist[v].results[2].success

\* C21: the toggle is an unguarded read-modify-write; two toggles whose reads
\* both happen before either write issue the same command, both answer
\* success with the same exit_node_enabled value, and the daemon's state ends
\* up changed once, not twice.
C21_RacingTogglesChangeOnce ==
    \A w, v \in Workers : \A x \in BOOLEAN :
        BothWrote(w, v, x) =>
            /\ hist[w].cmds[2] = hist[v].cmds[2]
            /\ resp[w][1].success /\ resp[v][1].success
            /\ resp[w][1].exit_node_enabled = resp[v][1].exit_node_enabled
            /\ exit_node = ~x

\* the part of C21 that the handler keeps in both directions: nothing detects
\* the other request, both issue the command their own read chose and both
\* answer success with the negation of what they read
RacingTogglesUndetected ==
    \A w, v \in Workers : \A x \in BOOLEAN :
        BothWrote(w, v, x) =>
            /\ hist[w].cmds[2] = (IF x THEN DisableCmd ELSE EnableCmd)
            /\ hist[w].cmds[2] = hist[v].cmds[2]
            /\ resp[w][1].success /\ resp[v][1].success
            /\ resp[w][1].exit_node_enabled = (IF x THEN "false" ELSE "true")
            /\ resp[w][1].exit_node_enabled = resp[v][1].exit_node_enabled

\* in the enabling direction the state ends up changed once
RacingEnablesChangeOnce ==
    \A w, v \in Workers : BothWrote(w, v, FALSE) => exit_node

\* two racing toggles found the node advertised and both disabled it
C21_RacingDisables == \E w, v \in Workers : BothWrote(w, v, TRUE)

\* two racing toggles found the node not advertised and both enabled it
RacingEnables == \E w, v \in Workers : BothWrote(w, v, FALSE)

====
